---- MODULE Spec2Model ----
(***************************************************************************)
(* Model of the block-trace decoder (trace_decoder/src/core.rs):           *)
(* entrypoint -> start -> batch -> middle (+ do_beacon_hook) -> outputs.   *)
(*                                                                         *)
(* Hashes are symbolic and injective: Keccak(x) is the tagged pre-image,   *)
(* and the root of a trie is the tagged key->value map it commits to.      *)
(* Option<T> is a sequence of length 0 (None) or 1 (Some).                 *)
(*                                                                         *)
(* A definition named X_mut_... is a faulty variant of X: a property that  *)
(* depends on X fails when X is replaced by it.                            *)
(***************************************************************************)
EXTENDS Integers, Sequences, FiniteSets, TLC

VARIABLES
    input,               \* arguments of the call under study
    pc,                  \* position in entrypoint / middle
    result,              \* "running", "ok" or "err"
    error,               \* message of the anyhow error, "" when none
    batches,             \* batches still to be processed by middle
    batch_rest,          \* slots of the current batch still to be replayed
    traces,              \* traces of the current transaction still to be replayed
    txn,                 \* Option<TxnInfo> of the slot being replayed
    last_trace,          \* the (addr, trace, born, do_writes) replayed last
    state_trie,
    storage_tries,
    transaction_trie,
    receipt_trie,
    code,                \* Hash2Code, as the set of registered byte strings
    withdrawals,         \* wei withdrawals not yet drained
    txn_ix,
    loop_ix,
    loop_len,
    batch_first_txn_ix,
    batch_gas_used,
    batch_byte_code,
    batch_contract_code,
    before,
    storage_masks,
    state_mask,
    hook_runs,           \* number of executions of do_beacon_hook
    out,                 \* Vec<Batch> built by middle
    gens,                \* Vec<GenerationInputs> returned by entrypoint
    first_run,           \* Option of the outcome of an earlier call on the same input
    \* fetch_previous_block_hashes_from_block (zero/src/rpc/mod.rs)
    previous_block_numbers, \* Vec of (current block, optional previous block)
    collected_hashes,    \* results of the fetches, in the order of the requests
    entries,             \* the (hash, block number) items the for_each has still to visit
    prev_hashes,         \* the array being filled, indexed from 0
    \* client_main (zero/src/bin/leader/client.rs)
    block_interval_stream, \* Option of the items the stream has still to yield
    block_interval_elem, \* Option of the (block number, is last) item being handled
    channel,             \* messages in the mpsc channel, oldest first
    rx_open,             \* the receiver half is alive
    proving_task,        \* "none", "running", "ok", "err" or "panicked"
    received,            \* messages the proving task has taken, in order
    sent,                \* messages the client has sent, in order
    closed               \* proof runtimes closed so far, in order

vars == << input, pc, result, error, batches, batch_rest, traces, txn, last_trace,
           state_trie, storage_tries, transaction_trie, receipt_trie, code,
           withdrawals, txn_ix, loop_ix, loop_len, batch_first_txn_ix,
           batch_gas_used, batch_byte_code, batch_contract_code, before,
           storage_masks, state_mask, hook_runs, out, gens, first_run,
           previous_block_numbers, collected_hashes, entries, prev_hashes,
           block_interval_stream, block_interval_elem, channel, rx_open, proving_task,
           received, sent, closed >>

\* the variables of the two functions of the zero crate
rpcVars == << previous_block_numbers, collected_hashes, entries, prev_hashes >>
leaderVars == << block_interval_stream, block_interval_elem, channel, rx_open,
                proving_task, received, sent, closed >>

(***************************************************************************)
(* Bounds of the model.                                                    *)
(***************************************************************************)
MaxTxns == 3          \* transactions per block in the pipeline runs
MaxHint == 3          \* batch_size_hint in the pipeline runs
MaxBatchTxns == 8     \* transactions in the runs of the batcher alone
MaxBatchHint == 8     \* batch_size_hint in the runs of the batcher alone
MaxGas == 2           \* gas_used of one transaction

(***************************************************************************)
(* Generic helpers.                                                        *)
(***************************************************************************)
Some(x) == << x >>
None == << >>
IsSome(o) == Len(o) = 1
Max(a, b) == IF a >= b THEN a ELSE b

RECURSIVE SumSeq(_)
SumSeq(s) == IF s = << >> THEN 0 ELSE Head(s) + SumSeq(Tail(s))

RECURSIVE Flatten(_)
Flatten(ss) == IF ss = << >> THEN << >> ELSE Head(ss) \o Flatten(Tail(ss))

SeqMap(F(_), s) == [i \in 1..Len(s) |-> F(s[i])]

\* keccak_hash::keccak, symbolic: injective, and never equal to its argument
Keccak(x) == << "keccak", x >>

(***************************************************************************)
(* batch (core.rs 198-223)                                                 *)
(***************************************************************************)
\* itertools chunks(hint): consecutive pieces of hint items, the last shorter
RECURSIVE Chunks(_, _)
Chunks(s, h) ==
    IF s = << >> THEN << >>
    ELSE IF Len(s) <= h THEN << s >>
    ELSE << SubSeq(s, 1, h) >> \o Chunks(SubSeq(s, h + 1, Len(s)), h)

\* itertools pad_using(2, |_| None)
PadUsing2(s) == s \o [i \in 1..(2 - Len(s)) |-> None]

batch_mut_nopad(txns, batch_size_hint) ==
    LET hint == Max(batch_size_hint, 1)
        somes == SeqMap(Some, txns)
        n_batches == Len(Chunks(somes, hint))
    IN  IF n_batches >= 2 THEN Chunks(somes, hint)
        ELSE IF Len(somes) >= 2
             THEN << SubSeq(somes, 1, Len(somes) \div 2),
                     SubSeq(somes, Len(somes) \div 2 + 1, Len(somes)) >>
             ELSE SeqMap(LAMBDA it : << it >>, somes)

batch_mut_half(txns, batch_size_hint) ==
    LET hint == Max(batch_size_hint, 1)
        somes == SeqMap(Some, txns)
        n_batches == Len(Chunks(somes, hint))
        half == (Len(somes) + 1) \div 2
    IN  IF n_batches >= 2 THEN Chunks(somes, hint)
        ELSE IF Len(somes) >= 2
             THEN << SubSeq(somes, 1, half), SubSeq(somes, half + 1, Len(somes)) >>
             ELSE SeqMap(LAMBDA it : << it >>, PadUsing2(somes))

batch_mut_overlap(txns, batch_size_hint) ==
    LET hint == Max(batch_size_hint, 1)
        somes == SeqMap(Some, txns)
        n_batches == Len(Chunks(somes, hint))
    IN  IF n_batches >= 2 THEN Chunks(somes, hint)
        ELSE IF Len(somes) >= 2
             THEN << SubSeq(somes, 1, Len(somes) \div 2),
                     SubSeq(somes, Len(somes) \div 2, Len(somes)) >>
             ELSE SeqMap(LAMBDA it : << it >>, PadUsing2(somes))

batch(txns, batch_size_hint) ==
    LET hint == Max(batch_size_hint, 1)
        somes == SeqMap(Some, txns)
        n_batches == Len(Chunks(somes, hint))
    IN  IF n_batches >= 2 THEN Chunks(somes, hint)
        ELSE IF Len(somes) >= 2
             THEN << SubSeq(somes, 1, Len(somes) \div 2),
                     SubSeq(somes, Len(somes) \div 2 + 1, Len(somes)) >>
             ELSE SeqMap(LAMBDA it : << it >>, PadUsing2(somes))

(***************************************************************************)
(* Addresses, slots, byte strings.                                         *)
(***************************************************************************)
\* testing_utils::BEACON_ROOTS_CONTRACT_ADDRESS (0x000F3df6...Beac02), abridged
BEACON_ROOTS_CONTRACT_ADDRESS == 4788
\* testing_utils::HISTORY_BUFFER_LENGTH
HISTORY_BUFFER_LENGTH == 8191

\* the addresses the runs use: 0x00, precompiles 0x01, 0x09, 0x0a, then 0x0b,
\* two externally owned accounts of the pre-state, one address absent from it
Addr == [zero |-> 0, pre1 |-> 1, pre9 |-> 9, pre10 |-> 10, eleven |-> 11,
         alice |-> 1000, bob |-> 1001, carol |-> 1002]
Addrs == {Addr.zero, Addr.pre1, Addr.pre9, Addr.pre10, Addr.eleven,
          Addr.alice, Addr.bob, Addr.carol, BEACON_ROOTS_CONTRACT_ADDRESS}
HAddrs == {Keccak(a) : a \in Addrs}

\* storage slot indices: two low slots and their images in the ring buffer
Slots == {0, 1, HISTORY_BUFFER_LENGTH, HISTORY_BUFFER_LENGTH + 1}
SlotKeys == {Keccak(k) : k \in Slots}

EmptyCode == << >>
Codes == {EmptyCode, << 96 >>, << 97 >>}

\* PRECOMPILE_ADDRESSES.contains (core.rs 462-464): a half-open Range
PrecompileContains_mut_inclusive(addr) == 1 <= addr /\ addr <= 10
PrecompileContains(addr) == 1 <= addr /\ addr < 10

(***************************************************************************)
(* RLP of an unsigned integer (rlp::encode(&U256)): big-endian, minimal.   *)
(***************************************************************************)
RECURSIVE BigEndian(_)
BigEndian(v) == IF v = 0 THEN << >> ELSE BigEndian(v \div 256) \o << v % 256 >>

Rlp(v) ==
    LET be == BigEndian(v)
    IN  IF Len(be) = 1 /\ be[1] < 128 THEN be ELSE << 128 + Len(be) >> \o be

(***************************************************************************)
(* Amounts of wei are U256 values beyond 32-bit integers: they are held    *)
(* as two limbs in base 10^9, the value being giga * 10^9 + unit.          *)
(***************************************************************************)
WeiPerGwei == 1000000000
Wei(giga, unit) == [giga |-> giga, unit |-> unit]
U256Add(a, b) ==
    [giga |-> a.giga + b.giga + (a.unit + b.unit) \div WeiPerGwei,
     unit |-> (a.unit + b.unit) % WeiPerGwei]

\* zk_evm_common::gwei_to_wei: amt * 10^9
gwei_to_wei(amt) == Wei(amt, 0)

(***************************************************************************)
(* Typed tries (crate::typed_mpt).  A trie is the key->value map it holds; *)
(* its root is the tagged map.  A storage trie may instead be known only   *)
(* by its hash (insert_hash at the empty path): then it cannot be edited.  *)
(***************************************************************************)
EmptyMap == [k \in SlotKeys |-> << >>]
Root(m) == [mpt |-> m]
EmptyRoot == Root(EmptyMap)

StorageTrieDefault == [hashed |-> FALSE, m |-> EmptyMap]
StorageHashOnly(root) == [hashed |-> TRUE, m |-> root.mpt]
StorageRoot(t) == Root(t.m)

\* leading nibble of a hashed key; keys that share it share a branch
Nib(key) == key[2] % 2

Present(m) == {k \in DOMAIN m : m[k] # << >>}

\* the keys whose branch collapsed when `key` was deleted from map m
Collapsed(m, key) ==
    LET rest == Present(m) \ {key}
        same == {k \in rest : Nib(k) = Nib(key)}
    IN  IF key \notin Present(m) THEN {}
        ELSE IF same # {} THEN (IF Cardinality(same) = 1 THEN same ELSE {})
        ELSE IF Cardinality(rest) = 1 THEN rest ELSE {}

StorageInsert(t, key, val) ==
    IF t.hashed THEN [ok |-> FALSE, trie |-> t]
    ELSE [ok |-> TRUE, trie |-> [t EXCEPT !.m[key] = val]]

StorageReportingRemove(t, key) ==
    IF t.hashed THEN [ok |-> FALSE, trie |-> t, reported |-> {}]
    ELSE [ok |-> TRUE, trie |-> [t EXCEPT !.m[key] = << >>],
          reported |-> Collapsed(t.m, key)]

\* AccountRlp::default()
AccountDefault ==
    [nonce |-> 0, balance |-> Wei(0, 0), storage_root |-> EmptyRoot,
     code_hash |-> Keccak(EmptyCode)]

\* StateTrie::get_by_address / insert_by_address / reporting_remove / root
StateGet(st, addr) == st[Keccak(addr)]
StateInsert(st, addr, acct) == [st EXCEPT ![Keccak(addr)] = Some(acct)]
StateReportingRemove(st, addr) ==
    [trie |-> [st EXCEPT ![Keccak(addr)] = None],
     reported |-> Collapsed(st, Keccak(addr))]
StateRoot(st) == Root(st)

\* TransactionTrie / ReceiptTrie: insert(txn_ix, bytes), root
IndexTrieNew == {}
IndexTrieInsert(t, ix, val) == {p \in t : p[1] # ix} \cup {<< ix, val >>}
IndexTrieRoot(t) == Root(t)

\* mask(keep): the trie pruned to the witness of `keep`; the root is kept
Mask(m, keep) == [m |-> m, keep |-> keep]

(***************************************************************************)
(* Hash2Code (core.rs 605-643): the registry, as the set of its values.    *)
(***************************************************************************)
Hash2CodeNew == {EmptyCode}
Hash2CodeInsert_mut_noop(cd, bytes) == cd

Hash2CodeInsert(cd, bytes) == cd \cup {bytes}
\* Extend for Hash2Code (core.rs 629-635): the items inserted one by one
RECURSIVE Hash2CodeExtend_mut_first_only(_, _)
Hash2CodeExtend_mut_first_only(cd, items) ==
    IF items = << >> THEN cd ELSE Hash2CodeInsert(cd, Head(items))

RECURSIVE Hash2CodeExtend(_, _)
Hash2CodeExtend(cd, items) ==
    IF items = << >> THEN cd
    ELSE Hash2CodeExtend(Hash2CodeInsert(cd, Head(items)), Tail(items))

\* the orders in which the iteration of a collection may yield its items
Orders(S) ==
    {s \in [1..Cardinality(S) -> S] :
        \A i, j \in 1..Cardinality(S) : i # j => s[i] # s[j]}

Hash2CodeGet(cd, hash) ==
    IF \E c \in cd : Keccak(c) = hash
    THEN [ok |-> TRUE, bytes |-> CHOOSE c \in cd : Keccak(c) = hash]
    ELSE [ok |-> FALSE, bytes |-> EmptyCode]

(***************************************************************************)
(* Receipts.  The bytes of a receipt are abstracted to their encoding      *)
(* ("legacy" RLP, a typed envelope "wrapped" as an RLP string, the bare    *)
(* "typed" envelope, or bytes that decode as neither) and status bit.      *)
(***************************************************************************)
ReceiptEmpty == [enc |-> "empty", status |-> FALSE]

\* map_receipt_bytes (core.rs 592-599)
map_receipt_bytes(bytes) ==
    IF bytes.enc = "legacy" THEN [ok |-> TRUE, bytes |-> bytes]
    ELSE IF bytes.enc = "wrapped"
         THEN [ok |-> TRUE, bytes |-> [bytes EXCEPT !.enc = "typed"]]
         ELSE [ok |-> FALSE, bytes |-> bytes]

(***************************************************************************)
(* do_beacon_hook (core.rs 543-590)                                        *)
(***************************************************************************)
\* one iteration of the loop over the two (slot index, value) pairs
HookWrite_mut_insert_zero(acc, ix, u) ==
    LET slot == Keccak(ix)
        ins == StorageInsert(acc.trie, slot, Rlp(u))
    IN  IF ~acc.ok THEN acc
        ELSE [ok |-> ins.ok, trie |-> ins.trie, trim |-> acc.trim \cup {slot}]

HookWrite_mut_no_trim(acc, ix, u) ==
    LET slot == Keccak(ix)
        rem == StorageReportingRemove(acc.trie, slot)
        ins == StorageInsert(acc.trie, slot, Rlp(u))
    IN  IF ~acc.ok THEN acc
        ELSE IF u = 0
             THEN [ok |-> rem.ok, trie |-> rem.trie, trim |-> acc.trim]
             ELSE [ok |-> ins.ok, trie |-> ins.trie, trim |-> acc.trim]

HookWrite(acc, ix, u) ==
    LET slot == Keccak(ix)
        rem == StorageReportingRemove(acc.trie, slot)
        ins == StorageInsert(acc.trie, slot, Rlp(u))
    IN  IF ~acc.ok THEN acc
        ELSE IF u = 0
             THEN [ok |-> rem.ok, trie |-> rem.trie,
                   trim |-> acc.trim \cup {slot} \cup rem.reported]
             ELSE [ok |-> ins.ok, trie |-> ins.trie, trim |-> acc.trim \cup {slot}]

HookFail(msg, storage, trim_storage, trim_state, st) ==
    [ok |-> FALSE, error |-> msg, storage |-> storage,
     trim_storage |-> trim_storage, trim_state |-> trim_state, state_trie |-> st]

do_beacon_hook_mut_stale_root(block_timestamp, storage, trim_storage, parent_beacon_block_root, trim_state, st) ==
    LET b == BEACON_ROOTS_CONTRACT_ADDRESS
        history_timestamp == block_timestamp % HISTORY_BUFFER_LENGTH
        history_timestamp_next == history_timestamp + HISTORY_BUFFER_LENGTH
        trim0 == IF trim_storage[b] = None THEN {} ELSE trim_storage[b][1]
        w1 == HookWrite([ok |-> TRUE, trie |-> storage[Keccak(b)][1], trim |-> trim0],
                        history_timestamp, block_timestamp)
        w2 == HookWrite(w1, history_timestamp_next, parent_beacon_block_root)
    IN  IF storage[Keccak(b)] = None \/ ~w2.ok \/ StateGet(st, b) = None
        THEN HookFail("beacon hook failed", storage, trim_storage, trim_state, st)
        ELSE [ok |-> TRUE, error |-> "",
              storage |-> [storage EXCEPT ![Keccak(b)] = Some(w2.trie)],
              trim_storage |-> [trim_storage EXCEPT ![b] = Some(w2.trim)],
              trim_state |-> trim_state \cup {Keccak(b)},
              state_trie |-> st]

do_beacon_hook(block_timestamp, storage, trim_storage, parent_beacon_block_root, trim_state, st) ==
    LET b == BEACON_ROOTS_CONTRACT_ADDRESS
        history_timestamp == block_timestamp % HISTORY_BUFFER_LENGTH
        history_timestamp_next == history_timestamp + HISTORY_BUFFER_LENGTH
        trim0 == IF trim_storage[b] = None THEN {} ELSE trim_storage[b][1]
        w1 == HookWrite([ok |-> TRUE, trie |-> storage[Keccak(b)][1], trim |-> trim0],
                        history_timestamp, block_timestamp)
        w2 == HookWrite(w1, history_timestamp_next, parent_beacon_block_root)
        beacon_acct == StateGet(st, b)
    IN  IF storage[Keccak(b)] = None
        THEN HookFail("missing beacon contract storage trie",
                      storage, trim_storage, trim_state, st)
        ELSE IF ~w2.ok
        THEN HookFail("beacon storage trie is known only by hash",
                      storage, trim_storage, trim_state, st)
        ELSE IF beacon_acct = None
        THEN HookFail("missing beacon contract address",
                      storage, trim_storage, trim_state, st)
        ELSE [ok |-> TRUE, error |-> "",
              storage |-> [storage EXCEPT ![Keccak(b)] = Some(w2.trie)],
              trim_storage |-> [trim_storage EXCEPT ![b] = Some(w2.trim)],
              trim_state |-> trim_state \cup {Keccak(b)},
              state_trie |-> StateInsert(st, b,
                  [beacon_acct[1] EXCEPT !.storage_root = StorageRoot(w2.trie)])]

(***************************************************************************)
(* Inputs: TxnTrace, TxnMeta, TxnInfo.                                     *)
(* storage_written is the BTreeMap as the list of its (slot, value)        *)
(* entries in key order; traces is the map as its (address, trace) list.   *)
(***************************************************************************)
TxnTraceDefault ==
    [balance |-> None, nonce |-> None, storage_read |-> {},
     storage_written |-> << >>, code_usage |-> None, self_destructed |-> FALSE]

TxnInfoDefault_mut_gas ==
    [traces |-> << >>,
     meta |-> [byte_code |-> << >>, new_receipt_trie_node_byte |-> ReceiptEmpty,
               gas_used |-> 1]]

TxnInfoDefault ==
    [traces |-> << >>,
     meta |-> [byte_code |-> << >>, new_receipt_trie_node_byte |-> ReceiptEmpty,
               gas_used |-> 0]]

WrittenKeys(written) == {written[i][1] : i \in 1..Len(written)}

(***************************************************************************)
(* middle, the body of the loop over a transaction's traces                *)
(* (core.rs 378-477), as a function of the state it reads and writes.      *)
(***************************************************************************)
\* core.rs 411-416: the slots of a trace that enter the address's storage mask
StorageMaskKeys_mut_written_only(trc) ==
    {Keccak(k) : k \in WrittenKeys(trc.storage_written)}

StorageMaskKeys(trc) ==
    {Keccak(k) : k \in WrittenKeys(trc.storage_written) \cup trc.storage_read}

\* core.rs 402-407
DoWrites_mut_ignore_status(just_access, born, status) == ~just_access

DoWrites(just_access, born, status) ==
    ~just_access /\ (IF born THEN status ELSE TRUE)

\* core.rs 466: whether a read-only access is admitted to the state mask
ReadOnlyAdmits_mut_inverted(status, addr) == ~status \/ ~PrecompileContains(addr)

ReadOnlyAdmits_mut_always(status, addr) == TRUE

ReadOnlyAdmits(status, addr) == status \/ ~PrecompileContains(addr)

\* core.rs 445-454: the writes of one trace, in key order
RECURSIVE StorageWrites_mut_unencoded(_, _)
StorageWrites_mut_unencoded(acc, written) ==
    IF written = << >> \/ ~acc.ok THEN acc
    ELSE LET slot == Keccak(Head(written)[1])
             v == Head(written)[2]
             rem == StorageReportingRemove(acc.trie, slot)
             ins == StorageInsert(acc.trie, slot, BigEndian(v))
             next == IF v = 0
                     THEN [ok |-> rem.ok, trie |-> rem.trie,
                           mask |-> acc.mask \cup rem.reported]
                     ELSE [ok |-> ins.ok, trie |-> ins.trie, mask |-> acc.mask]
         IN  StorageWrites_mut_unencoded(next, Tail(written))

RECURSIVE StorageWrites_mut_insert_zero(_, _)
StorageWrites_mut_insert_zero(acc, written) ==
    IF written = << >> \/ ~acc.ok THEN acc
    ELSE LET slot == Keccak(Head(written)[1])
             v == Head(written)[2]
             ins == StorageInsert(acc.trie, slot, Rlp(v))
             next == [ok |-> ins.ok, trie |-> ins.trie, mask |-> acc.mask]
         IN  StorageWrites_mut_insert_zero(next, Tail(written))

RECURSIVE StorageWrites(_, _)
StorageWrites(acc, written) ==
    IF written = << >> \/ ~acc.ok THEN acc
    ELSE LET slot == Keccak(Head(written)[1])
             v == Head(written)[2]
             rem == StorageReportingRemove(acc.trie, slot)
             ins == StorageInsert(acc.trie, slot, Rlp(v))
             next == IF v = 0
                     THEN [ok |-> rem.ok, trie |-> rem.trie,
                           mask |-> acc.mask \cup rem.reported]
                     ELSE [ok |-> ins.ok, trie |-> ins.trie, mask |-> acc.mask]
         IN  StorageWrites(next, Tail(written))

\* core.rs 474-477
SelfDestruct_mut_keep_storage(s, addr) ==
    LET rem == StateReportingRemove(s.state_trie, addr)
    IN  [s EXCEPT !.state_trie = rem.trie,
                  !.state_mask = s.state_mask \cup rem.reported]

SelfDestruct_mut_keep_account(s, addr) ==
    [s EXCEPT !.storage_tries[Keccak(addr)] = None]

SelfDestruct(s, addr) ==
    LET rem == StateReportingRemove(s.state_trie, addr)
    IN  [s EXCEPT !.storage_tries[Keccak(addr)] = None,
                  !.state_trie = rem.trie,
                  !.state_mask = s.state_mask \cup rem.reported]

TraceFail(s, msg) == [s EXCEPT !.ok = FALSE, !.error = msg]

\* s: [ok, error, state_trie, storage_tries, code, state_mask, storage_masks,
\*     batch_contract_code]
ReplayTrace(s, addr, trc, receipt_bytes) ==
    LET mapped == map_receipt_bytes(receipt_bytes)
        status == mapped.bytes.status
        just_access == (trc = TxnTraceDefault)
        got == StateGet(s.state_trie, addr)
        born == (got = None)
        acct0 == IF born THEN AccountDefault ELSE got[1]
        do_writes == DoWrites(just_access, born, status)
        haddr == Keccak(addr)
        mask0 == (IF s.storage_masks[addr] = None THEN {} ELSE s.storage_masks[addr][1])
                 \cup StorageMaskKeys(trc)
        usage == trc.code_usage
        rd == Hash2CodeGet(s.code, usage[1].arg)
        code_fail == usage # None /\ usage[1].kind = "Read" /\ ~rd.ok
        code_hash == IF usage = None THEN acct0.code_hash
                     ELSE IF usage[1].kind = "Read" THEN usage[1].arg
                     ELSE Keccak(usage[1].arg)
        code1 == IF usage # None /\ usage[1].kind = "Write"
                 THEN Hash2CodeInsert(s.code, usage[1].arg) ELSE s.code
        bcc1 == IF usage = None THEN s.batch_contract_code
                ELSE IF usage[1].kind = "Read" THEN s.batch_contract_code \cup {rd.bytes}
                ELSE s.batch_contract_code \cup {usage[1].arg}
        has_writes == trc.storage_written # << >>
        missing == has_writes /\ ~born /\ s.storage_tries[haddr] = None
        trie0 == IF s.storage_tries[haddr] = None THEN StorageTrieDefault
                 ELSE s.storage_tries[haddr][1]
        wr == StorageWrites([ok |-> TRUE, trie |-> trie0, mask |-> mask0],
                            trc.storage_written)
        acct1 == [nonce |-> IF trc.nonce = None THEN acct0.nonce ELSE trc.nonce[1],
                  balance |-> IF trc.balance = None THEN acct0.balance ELSE trc.balance[1],
                  storage_root |-> IF has_writes THEN StorageRoot(wr.trie)
                                   ELSE acct0.storage_root,
                  code_hash |-> code_hash]
        written == [s EXCEPT
                      !.code = code1,
                      !.batch_contract_code = bcc1,
                      !.storage_tries[haddr] =
                          IF has_writes THEN Some(wr.trie) ELSE s.storage_tries[haddr],
                      !.storage_masks[addr] = Some(IF has_writes THEN wr.mask ELSE mask0),
                      !.state_trie = StateInsert(s.state_trie, addr, acct1),
                      !.state_mask = s.state_mask \cup {haddr}]
        accessed == [s EXCEPT
                      !.storage_masks[addr] = Some(mask0),
                      !.state_mask = IF ReadOnlyAdmits(status, addr)
                                     THEN s.state_mask \cup {haddr} ELSE s.state_mask]
        after == IF do_writes THEN written ELSE accessed
    IN  IF ~mapped.ok THEN TraceFail(s, "couldn't decode receipt")
        ELSE IF do_writes /\ code_fail THEN TraceFail(s, "no code for hash")
        ELSE IF do_writes /\ missing THEN TraceFail(s, "missing storage trie for address")
        ELSE IF do_writes /\ has_writes /\ ~wr.ok
        THEN TraceFail(s, "storage trie is known only by hash")
        ELSE IF trc.self_destructed THEN SelfDestruct(after, addr)
        ELSE after

\* born and do_writes of the trace, as ReplayTrace computes them
TraceBorn(st, addr) == StateGet(st, addr) = None
TraceDoWrites(st, addr, trc, receipt_bytes) ==
    DoWrites(trc = TxnTraceDefault, TraceBorn(st, addr),
             map_receipt_bytes(receipt_bytes).bytes.status)

(***************************************************************************)
(* middle, the end of a batch (core.rs 486-532).                           *)
(***************************************************************************)
\* core.rs 493-504: acc is [ok, state_trie, state_mask]
RECURSIVE ApplyWithdrawals(_, _)
ApplyWithdrawals(acc, wds) ==
    IF wds = << >> \/ ~acc.ok THEN acc
    ELSE LET addr == Head(wds)[1]
             amt == Head(wds)[2]
             got == StateGet(acc.state_trie, addr)
             mask1 == acc.state_mask \cup {Keccak(addr)}
         IN  IF got = None
             THEN [ok |-> FALSE, state_trie |-> acc.state_trie, state_mask |-> mask1]
             ELSE ApplyWithdrawals(
                    [ok |-> TRUE,
                     state_trie |-> StateInsert(acc.state_trie, addr,
                         [got[1] EXCEPT !.balance = U256Add(got[1].balance, amt)]),
                     state_mask |-> mask1],
                    Tail(wds))

\* core.rs 491, 505-507: whether this batch applies and carries the withdrawals
IsFinalIteration_mut_always(lix, llen) == TRUE

IsFinalIteration_mut_never(lix, llen) == FALSE

IsFinalIteration(lix, llen) == lix = llen

\* core.rs 509-526: the snapshot pruned to what the batch touched
MaskBefore_mut_drop(snap, st_mask, sto_masks, first_ix, end_ix) ==
    [state |-> Mask([h \in HAddrs |-> IF h \in st_mask THEN snap.state[h] ELSE None],
                    st_mask),
     receipt |-> Mask(snap.receipt, first_ix..(end_ix - 1)),
     transaction |-> Mask(snap.transaction, first_ix..(end_ix - 1)),
     storage |-> [h \in HAddrs |->
        IF snap.storage[h] # None /\ sto_masks[h[2]] # None
        THEN Some(Mask(snap.storage[h][1], sto_masks[h[2]][1]))
        ELSE None]]

MaskBefore_mut_no_retain(snap, st_mask, sto_masks, first_ix, end_ix) ==
    [state |-> Mask(snap.state, st_mask),
     receipt |-> Mask(snap.receipt, first_ix..(end_ix - 1)),
     transaction |-> Mask(snap.transaction, first_ix..(end_ix - 1)),
     storage |-> [h \in HAddrs |->
        IF snap.storage[h] = None THEN None
        ELSE Some(Mask(snap.storage[h][1],
                       IF sto_masks[h[2]] = None THEN {} ELSE sto_masks[h[2]][1]))]]

MaskBefore(snap, st_mask, sto_masks, first_ix, end_ix) ==
    [state |-> Mask(snap.state, st_mask),
     receipt |-> Mask(snap.receipt, first_ix..(end_ix - 1)),
     transaction |-> Mask(snap.transaction, first_ix..(end_ix - 1)),
     storage |-> [h \in HAddrs |->
        IF snap.storage[h] # None /\ sto_masks[h[2]] # None
        THEN Some(Mask(snap.storage[h][1], sto_masks[h[2]][1]))
        ELSE None]]

NoMasks == [a \in Addrs |-> None]

(***************************************************************************)
(* entrypoint (core.rs 32-120): the parts around middle.                   *)
(***************************************************************************)
\* core.rs 59-61
ConvertWithdrawals_mut_unconverted(wds) ==
    [i \in 1..Len(wds) |-> << wds[i][1], Wei(0, wds[i][2]) >>]

ConvertWithdrawals_mut_reversed(wds) ==
    [i \in 1..Len(wds) |-> << wds[Len(wds) + 1 - i][1],
                              gwei_to_wei(wds[Len(wds) + 1 - i][2]) >>]

ConvertWithdrawals(wds) ==
    [i \in 1..Len(wds) |-> << wds[i][1], gwei_to_wei(wds[i][2]) >>]

\* core.rs 73-119: the batches mapped to generation inputs, with the running gas
RECURSIVE GenerationInputs_mut_restart(_, _)
GenerationInputs_mut_restart(bs, running_gas_used) ==
    IF bs = << >> THEN << >>
    ELSE LET b == Head(bs)
         IN  << [txn_number_before |-> b.first_txn_ix,
                 gas_used_before |-> 0,
                 gas_used_after |-> b.gas_used,
                 signed_txns |-> b.byte_code,
                 withdrawals |-> b.withdrawals,
                 tries |-> b.before,
                 trie_roots_after |-> b.after,
                 contract_code |-> {<< Keccak(c), c >> : c \in b.contract_code}] >>
             \o GenerationInputs_mut_restart(Tail(bs), 0)

RECURSIVE GenerationInputs(_, _)
GenerationInputs(bs, running_gas_used) ==
    IF bs = << >> THEN << >>
    ELSE LET b == Head(bs)
         IN  << [txn_number_before |-> b.first_txn_ix,
                 gas_used_before |-> running_gas_used,
                 gas_used_after |-> running_gas_used + b.gas_used,
                 signed_txns |-> b.byte_code,
                 withdrawals |-> b.withdrawals,
                 tries |-> b.before,
                 trie_roots_after |-> b.after,
                 contract_code |-> {<< Keccak(c), c >> : c \in b.contract_code}] >>
             \o GenerationInputs(Tail(bs), running_gas_used + b.gas_used)

(***************************************************************************)
(* The inputs of the runs.                                                 *)
(***************************************************************************)
ReceiptOk == [enc |-> "legacy", status |-> TRUE]
ReceiptFailed == [enc |-> "legacy", status |-> FALSE]
ReceiptTyped == [enc |-> "wrapped", status |-> TRUE]
ReceiptBad == [enc |-> "bad", status |-> FALSE]

Txn(trs, bc, receipt, gas) ==
    [traces |-> trs,
     meta |-> [byte_code |-> bc, new_receipt_trie_node_byte |-> receipt,
               gas_used |-> gas]]

\* the kinds of transaction: successful legacy, failed legacy, successful typed
Metas == {[bc |-> << 2, 1 >>, receipt |-> ReceiptOk],
          [bc |-> << 2, 2 >>, receipt |-> ReceiptFailed],
          [bc |-> << 2, 3 >>, receipt |-> ReceiptTyped]}

SlotMap(pairs) ==
    [k \in SlotKeys |->
        IF \E p \in pairs : Keccak(p[1]) = k
        THEN Rlp((CHOOSE p \in pairs : Keccak(p[1]) = k)[2]) ELSE << >>]

AliceStorage == SlotMap({<< 0, 5 >>, << 1, 6 >>})

\* beacon contract storage before the block
BeaconStorages ==
    {SlotMap({}), SlotMap({<< 0, 9 >>}), SlotMap({<< 0, 9 >>, << 1, 8 >>}),
     SlotMap({<< 0, 9 >>, << HISTORY_BUFFER_LENGTH, 77 >>}),
     SlotMap({<< 0, 9 >>, << 1, 8 >>, << HISTORY_BUFFER_LENGTH, 77 >>,
              << HISTORY_BUFFER_LENGTH + 1, 78 >>})}

PreState(beacon_map) ==
    [h \in HAddrs |->
        IF h = Keccak(Addr.alice)
        THEN Some([nonce |-> 1, balance |-> Wei(0, 10),
                   storage_root |-> Root(AliceStorage), code_hash |-> Keccak(EmptyCode)])
        ELSE IF h = Keccak(Addr.carol)
        THEN Some([nonce |-> 0, balance |-> Wei(1, 5),
                   storage_root |-> EmptyRoot, code_hash |-> Keccak(<< 97 >>)])
        ELSE IF h = Keccak(BEACON_ROOTS_CONTRACT_ADDRESS)
        THEN Some([nonce |-> 1, balance |-> Wei(0, 0),
                   storage_root |-> Root(beacon_map), code_hash |-> Keccak(<< 97 >>)])
        ELSE None]

\* carol's storage trie is not supplied: middle attaches it by hash
PreStorage(beacon_map) ==
    [h \in HAddrs |->
        IF h = Keccak(Addr.alice) THEN Some([hashed |-> FALSE, m |-> AliceStorage])
        ELSE IF h = Keccak(BEACON_ROOTS_CONTRACT_ADDRESS)
        THEN Some([hashed |-> FALSE, m |-> beacon_map])
        ELSE None]

BaseInput ==
    [txn_info |-> << >>, batch_size_hint |-> 1,
     pre_state |-> PreState(SlotMap({<< 0, 9 >>})),
     pre_storage |-> PreStorage(SlotMap({<< 0, 9 >>})),
     code_db |-> {<< 97 >>},
     block_timestamp |-> 1, parent_beacon_block_root |-> 1,
     withdrawals |-> << >>]

\* the traces a transaction may carry for one address
TraceMenu ==
    {TxnTraceDefault,
     [TxnTraceDefault EXCEPT !.balance = Some(Wei(0, 7))],
     [TxnTraceDefault EXCEPT !.nonce = Some(2)],
     [TxnTraceDefault EXCEPT !.storage_read = {0}],
     [TxnTraceDefault EXCEPT !.storage_written = << << 0, 7 >> >>],
     [TxnTraceDefault EXCEPT !.storage_written = << << 0, 0 >> >>],
     [TxnTraceDefault EXCEPT !.storage_written = << << 0, 0 >>, << 1, 9 >> >>],
     [TxnTraceDefault EXCEPT !.code_usage = Some([kind |-> "Write", arg |-> << 96 >>])],
     [TxnTraceDefault EXCEPT !.code_usage = Some([kind |-> "Read", arg |-> Keccak(<< 96 >>)])],
     [TxnTraceDefault EXCEPT !.self_destructed = TRUE],
     [TxnTraceDefault EXCEPT !.self_destructed = TRUE, !.balance = Some(Wei(0, 7)),
                             !.storage_written = << << 1, 9 >> >>,
                             !.code_usage = Some([kind |-> "Write", arg |-> << 96 >>])]}

\* blocks of one transaction with one trace
InputsOneTrace ==
    {[BaseInput EXCEPT !.txn_info = << Txn(<< << a, t >> >>, m.bc, m.receipt, 1) >>] :
        a \in Addrs, t \in TraceMenu, m \in Metas}

\* blocks with two traces on one address, in one batch or in two
InputsTwoTraces ==
    {[BaseInput EXCEPT
        !.batch_size_hint = h,
        !.txn_info = << Txn(<< << a, t1 >> >>, << 2, 1 >>, ReceiptOk, 1),
                        Txn(<< << a, t2 >> >>, << 2, 1 >>, ReceiptOk, 2) >>
                      \o (IF h = 2 THEN << Txn(<< >>, << 2, 1 >>, ReceiptOk, 0) >> ELSE << >>)] :
        a \in {Addr.alice, Addr.bob}, t1 \in TraceMenu, t2 \in TraceMenu, h \in {1, 2}}

\* blocks of one transaction with traces on two addresses, in address order
InputsTwoAddrs ==
    {[BaseInput EXCEPT
        !.txn_info = << Txn(<< << p[1], t1 >>, << p[2], t2 >> >>, m.bc, m.receipt, 1) >>] :
        p \in {<< Addr.pre1, Addr.bob >>, << Addr.alice, Addr.bob >>},
        t1 \in TraceMenu, t2 \in TraceMenu, m \in {x \in Metas : x.receipt.enc = "legacy"}}

\* blocks without transactions, over the inputs of the beacon hook
Timestamps == {0, 1, HISTORY_BUFFER_LENGTH, HISTORY_BUFFER_LENGTH + 1}
BeaconRoots == {0, 1, 300}
InputsBeacon ==
    {[BaseInput EXCEPT !.block_timestamp = ts, !.parent_beacon_block_root = r,
                       !.pre_state = PreState(bm), !.pre_storage = PreStorage(bm)] :
        ts \in Timestamps, r \in BeaconRoots, bm \in BeaconStorages}

\* withdrawals, in gwei
WithdrawalLists ==
    {<< >>, << << Addr.alice, 1 >> >>,
     << << Addr.alice, 1 >>, << Addr.carol, 2 >> >>,
     << << Addr.carol, 2 >>, << Addr.alice, 1 >> >>,
     << << Addr.alice, 1 >>, << Addr.alice, 2 >> >>,
     << << Addr.bob, 1 >> >>}

\* blocks of plain transactions: every count, hint, gas and withdrawal list
PlainTxns(gas) == [i \in 1..Len(gas) |-> Txn(<< >>, << 2, i >>, ReceiptOk, gas[i])]
InputsPlain ==
    {[BaseInput EXCEPT !.txn_info = PlainTxns(gas), !.batch_size_hint = h,
                       !.withdrawals = w] :
        gas \in UNION {[1..n -> 0..MaxGas] : n \in 0..MaxTxns},
        h \in 0..MaxHint,
        w \in {x \in WithdrawalLists : Len(x) # 1}}

\* blocks of one transaction that touches an address and is followed by withdrawals
InputsWithdrawals ==
    {[BaseInput EXCEPT !.txn_info = << Txn(<< << a, t >> >>, << 2, 1 >>, ReceiptOk, 1) >>,
                       !.withdrawals = w] :
        a \in {Addr.alice, Addr.bob}, t \in TraceMenu, w \in WithdrawalLists}

\* blocks that middle must refuse: a storage trie that disagrees with its account,
\* no beacon contract, no beacon storage, a receipt that does not decode
InputsRefused ==
    {[BaseInput EXCEPT !.pre_storage[Keccak(Addr.alice)] = Some(StorageTrieDefault)],
     [BaseInput EXCEPT !.pre_state[Keccak(BEACON_ROOTS_CONTRACT_ADDRESS)] = None],
     [BaseInput EXCEPT !.pre_storage[Keccak(BEACON_ROOTS_CONTRACT_ADDRESS)] = None],
     [BaseInput EXCEPT !.pre_state[Keccak(BEACON_ROOTS_CONTRACT_ADDRESS)] = None,
                       !.pre_storage[Keccak(BEACON_ROOTS_CONTRACT_ADDRESS)] = None],
     [BaseInput EXCEPT !.txn_info = << Txn(<< >>, << 2, 1 >>, ReceiptBad, 1) >>],
     [BaseInput EXCEPT !.txn_info =
        << Txn(<< << Addr.alice, TxnTraceDefault >> >>, << >>, ReceiptBad, 1) >>]}

\* blocks of two transactions that use code, in one batch or in two, over the
\* code_db: the first writes or reads a code, or only accesses, and succeeds or
\* fails; the second reads a code
CodeDbs == {{}, {<< 96 >>}, {<< 96 >>, << 97 >>}}
ReadTrace(c) ==
    [TxnTraceDefault EXCEPT !.code_usage = Some([kind |-> "Read", arg |-> Keccak(c)])]
WriteTrace(c) ==
    [TxnTraceDefault EXCEPT !.code_usage = Some([kind |-> "Write", arg |-> c])]
InputsCode ==
    {[BaseInput EXCEPT
        !.code_db = cdb,
        !.batch_size_hint = h,
        !.txn_info = << Txn(<< << a, t1 >> >>, << 2, 1 >>, r, 1),
                        Txn(<< << Addr.alice, t2 >> >>, << 2, 2 >>, ReceiptOk, 1) >>
                      \o (IF h = 2 THEN << Txn(<< >>, << 2, 3 >>, ReceiptOk, 0) >> ELSE << >>)] :
        cdb \in CodeDbs, h \in {1, 2}, a \in {Addr.alice, Addr.bob},
        t1 \in {TxnTraceDefault, WriteTrace(<< 96 >>), ReadTrace(<< 96 >>)},
        r \in {ReceiptOk, ReceiptFailed},
        t2 \in {ReadTrace(EmptyCode), ReadTrace(<< 96 >>), ReadTrace(<< 97 >>),
                ReadTrace(<< 98 >>)}}

\* blocks without transactions, over the storage tries supplied with the state:
\* for an address without account, for carol (whose storage is empty) a trie
\* that agrees or disagrees, for alice her trie by hash or a disagreeing hash
InputsStorage ==
    {[BaseInput EXCEPT !.pre_storage[Keccak(Addr.bob)] = Some([hashed |-> FALSE, m |-> AliceStorage])],
     [BaseInput EXCEPT !.pre_storage[Keccak(Addr.carol)] = Some(StorageTrieDefault)],
     [BaseInput EXCEPT !.pre_storage[Keccak(Addr.carol)] = Some([hashed |-> FALSE, m |-> AliceStorage])],
     [BaseInput EXCEPT !.pre_storage[Keccak(Addr.alice)] = Some(StorageHashOnly(Root(AliceStorage)))],
     [BaseInput EXCEPT !.pre_storage[Keccak(Addr.alice)] = Some(StorageHashOnly(EmptyRoot))],
     [BaseInput EXCEPT !.pre_storage[Keccak(Addr.alice)] = None]}

\* blocks of one transaction with one trace on carol, an account with code and
\* an empty storage trie that is supplied
SstoreTraces ==
    TraceMenu \cup
    {[TxnTraceDefault EXCEPT !.storage_written = << << 1, 300 >> >>],
     [TxnTraceDefault EXCEPT !.storage_written = << << 1, 300 >> >>, !.nonce = Some(5),
                             !.balance = Some(Wei(2, 0))],
     [TxnTraceDefault EXCEPT !.storage_read = {0, 1}]}
InputsSstore ==
    {[BaseInput EXCEPT !.pre_storage[Keccak(Addr.carol)] = Some(StorageTrieDefault),
                       !.txn_info = << Txn(<< << Addr.carol, t >> >>, m.bc, m.receipt, 1) >>] :
        t \in SstoreTraces, m \in Metas}

\* blocks of up to three transactions of which some carry no bytes (byte_code
\* is a Vec<u8>, and only a dummy is sure to have it empty), in one batch or more
ByteCodes == {<< >>, << 2, 1 >>}
InputsByteCode ==
    {[BaseInput EXCEPT
        !.batch_size_hint = h,
        !.txn_info = [i \in 1..Len(bcs) |->
                        Txn(<< << Addr.alice, TxnTraceDefault >> >>, bcs[i], ReceiptOk, 1)]] :
        bcs \in UNION {[1..n -> ByteCodes] : n \in 1..MaxTxns}, h \in {1, 2}}

Inputs ==
    InputsByteCode \cup InputsSstore \cup InputsStorage \cup InputsOneTrace \cup InputsTwoTraces \cup InputsTwoAddrs \cup InputsBeacon
    \cup InputsPlain \cup InputsWithdrawals \cup InputsRefused \cup InputsCode

(***************************************************************************)
(* The state machine: one call of entrypoint.                              *)
(***************************************************************************)
EmptySnapshot ==
    [state |-> [h \in HAddrs |-> None], storage |-> [h \in HAddrs |-> None],
     transaction |-> IndexTrieNew, receipt |-> IndexTrieNew]

InitWith(inp, start_pc) ==
    /\ input = inp
    /\ pc = start_pc
    /\ result = "running"
    /\ error = ""
    /\ batches = << >>
    /\ batch_rest = << >>
    /\ traces = << >>
    /\ txn = None
    /\ last_trace = None
    /\ state_trie = [h \in HAddrs |-> None]
    /\ storage_tries = [h \in HAddrs |-> None]
    /\ transaction_trie = IndexTrieNew
    /\ receipt_trie = IndexTrieNew
    /\ code = {}
    /\ withdrawals = << >>
    /\ txn_ix = 0
    /\ loop_ix = 0
    /\ loop_len = 0
    /\ batch_first_txn_ix = 0
    /\ batch_gas_used = 0
    /\ batch_byte_code = << >>
    /\ batch_contract_code = {}
    /\ before = EmptySnapshot
    /\ storage_masks = NoMasks
    /\ state_mask = {}
    /\ hook_runs = 0
    /\ out = << >>
    /\ gens = << >>
    /\ first_run = None
    /\ previous_block_numbers = << >>
    /\ collected_hashes = << >>
    /\ entries = << >>
    /\ prev_hashes = << >>
    /\ block_interval_stream = None
    /\ block_interval_elem = None
    /\ channel = << >>
    /\ rx_open = FALSE
    /\ proving_task = "none"
    /\ received = << >>
    /\ sent = << >>
    /\ closed = << >>

Init == \E inp \in Inputs : InitWith(inp, "entry")

\* an anyhow error leaves the function: nothing is returned
Fail(msg) ==
    /\ pc' = "done"
    /\ result' = "err"
    /\ error' = msg
    /\ last_trace' = None
    /\ UNCHANGED << input, first_run, rpcVars, leaderVars, batches, batch_rest, traces, txn, state_trie, storage_tries,
                    transaction_trie, receipt_trie, code, withdrawals, txn_ix, loop_ix,
                    loop_len, batch_first_txn_ix, batch_gas_used, batch_byte_code,
                    batch_contract_code, before, storage_masks, state_mask, hook_runs,
                    out, gens >>

\* entrypoint up to the call of middle (core.rs 37-71): start, code_db, gwei, batch
Entrypoint_mut_no_ensure ==
    /\ pc = "entry"
    /\ state_trie' = input.pre_state
    /\ storage_tries' = input.pre_storage
    /\ \E order \in Orders(input.code_db) :
          code' = Hash2CodeExtend(Hash2CodeNew, order)
    /\ withdrawals' = ConvertWithdrawals(input.withdrawals)
    /\ batches' = batch(input.txn_info, input.batch_size_hint)
    /\ pc' = "phase_a"
    /\ UNCHANGED << input, first_run, rpcVars, leaderVars, result, error, batch_rest, traces, txn, last_trace,
                    transaction_trie, receipt_trie, txn_ix, loop_ix, loop_len,
                    batch_first_txn_ix, batch_gas_used, batch_byte_code,
                    batch_contract_code, before, storage_masks, state_mask,
                    hook_runs, out, gens >>

Entrypoint ==
    /\ pc = "entry"
    /\ IF input.batch_size_hint = 0
       THEN Fail("Condition failed: batch_size_hint != 0")
       ELSE /\ state_trie' = input.pre_state
            /\ storage_tries' = input.pre_storage
            /\ \E order \in Orders(input.code_db) :
                  code' = Hash2CodeExtend(Hash2CodeNew, order)
            /\ withdrawals' = ConvertWithdrawals(input.withdrawals)
            /\ batches' = batch(input.txn_info, input.batch_size_hint)
            /\ pc' = "phase_a"
            /\ UNCHANGED << input, first_run, rpcVars, leaderVars, result, error, batch_rest, traces, txn, last_trace,
                            transaction_trie, receipt_trie, txn_ix, loop_ix, loop_len,
                            batch_first_txn_ix, batch_gas_used, batch_byte_code,
                            batch_contract_code, before, storage_masks, state_mask,
                            hook_runs, out, gens >>

\* core.rs 288-299: the storage tries after the initialisation loop
InitialStorage(st, sto) ==
    [h \in HAddrs |->
        IF st[h] # None /\ sto[h] = None
        THEN Some(StorageHashOnly(st[h][1].storage_root)) ELSE sto[h]]

InconsistentStorage_mut_none(st, sto) == {}

InconsistentStorage(st, sto) ==
    {h \in HAddrs : st[h] # None /\ StorageRoot(sto[h][1]) # st[h][1].storage_root}

\* middle before its loop (core.rs 288-309)
PhaseA ==
    /\ pc = "phase_a"
    /\ LET sto == InitialStorage(state_trie, storage_tries)
       IN  IF InconsistentStorage(state_trie, sto) # {}
           THEN Fail("inconsistent initial storage for hashed address")
           ELSE /\ storage_tries' = sto
                /\ transaction_trie' = IndexTrieNew
                /\ receipt_trie' = IndexTrieNew
                /\ out' = << >>
                /\ txn_ix' = 0
                /\ loop_ix' = 0
                /\ loop_len' = Len(Flatten(batches))
                /\ pc' = IF batches = << >> THEN "collect" ELSE "batch"
                /\ UNCHANGED << input, first_run, rpcVars, leaderVars, result, error, batches, batch_rest, traces, txn,
                                last_trace, state_trie, code, withdrawals,
                                batch_first_txn_ix, batch_gas_used, batch_byte_code,
                                batch_contract_code, before, storage_masks, state_mask,
                                hook_runs, gens >>

\* core.rs 329: the hook runs in a batch entered with txn_ix = 0
HookDue_mut_every_batch(ix) == TRUE

HookDue(ix) == ix = 0

\* the head of a batch (core.rs 310-338)
BatchBegin ==
    /\ pc = "batch"
    /\ LET hook == do_beacon_hook(input.block_timestamp, storage_tries, NoMasks,
                                  input.parent_beacon_block_root, {}, state_trie)
       IN  IF HookDue(txn_ix) /\ ~hook.ok
           THEN Fail(hook.error)
           ELSE /\ batch_first_txn_ix' = txn_ix
                /\ batch_gas_used' = 0
                /\ batch_byte_code' = << >>
                /\ batch_contract_code' = {EmptyCode}
                /\ before' = [state |-> state_trie, transaction |-> transaction_trie,
                              receipt |-> receipt_trie, storage |-> storage_tries]
                /\ storage_masks' = IF HookDue(txn_ix) THEN hook.trim_storage ELSE NoMasks
                /\ state_mask' = IF HookDue(txn_ix) THEN hook.trim_state ELSE {}
                /\ storage_tries' = IF HookDue(txn_ix) THEN hook.storage ELSE storage_tries
                /\ state_trie' = IF HookDue(txn_ix) THEN hook.state_trie ELSE state_trie
                /\ hook_runs' = IF HookDue(txn_ix) THEN hook_runs + 1 ELSE hook_runs
                /\ batch_rest' = Head(batches)
                /\ batches' = Tail(batches)
                /\ pc' = "txn"
                /\ UNCHANGED << input, first_run, rpcVars, leaderVars, result, error, traces, txn, last_trace,
                                transaction_trie, receipt_trie, code, withdrawals, txn_ix,
                                loop_ix, loop_len, out, gens >>

\* the head of the loop over a batch's slots (core.rs 340-361)
TxnBegin ==
    /\ pc = "txn"
    /\ batch_rest # << >>
    /\ LET info == IF Head(batch_rest) = None THEN TxnInfoDefault ELSE Head(batch_rest)[1]
           meta == info.meta
           mapped == map_receipt_bytes(meta.new_receipt_trie_node_byte)
           nonempty == meta.byte_code # << >>
       IN  IF nonempty /\ ~mapped.ok
           THEN Fail("couldn't decode receipt as a legacy receipt or raw bytes")
           ELSE /\ txn' = Head(batch_rest)
                /\ batch_byte_code' = IF nonempty THEN Append(batch_byte_code, meta.byte_code)
                                      ELSE batch_byte_code
                /\ transaction_trie' =
                      IF nonempty THEN IndexTrieInsert(transaction_trie, txn_ix, meta.byte_code)
                      ELSE transaction_trie
                /\ receipt_trie' =
                      IF nonempty THEN IndexTrieInsert(receipt_trie, txn_ix, mapped.bytes)
                      ELSE receipt_trie
                /\ batch_gas_used' = batch_gas_used + meta.gas_used
                /\ traces' = info.traces
                /\ last_trace' = None
                /\ pc' = "trace"
                /\ UNCHANGED << input, first_run, rpcVars, leaderVars, result, error, batches, batch_rest, state_trie,
                                storage_tries, code, withdrawals, txn_ix, loop_ix, loop_len,
                                batch_first_txn_ix, batch_contract_code, before,
                                storage_masks, state_mask, hook_runs, out, gens >>

TraceState ==
    [ok |-> TRUE, error |-> "", state_trie |-> state_trie,
     storage_tries |-> storage_tries, code |-> code, state_mask |-> state_mask,
     storage_masks |-> storage_masks, batch_contract_code |-> batch_contract_code]

\* one iteration of the loop over the transaction's traces (core.rs 363-478)
Trace ==
    /\ pc = "trace"
    /\ traces # << >>
    /\ LET addr == Head(traces)[1]
           trc == Head(traces)[2]
           receipt == txn[1].meta.new_receipt_trie_node_byte
           s == ReplayTrace(TraceState, addr, trc, receipt)
       IN  IF ~s.ok
           THEN Fail(s.error)
           ELSE /\ state_trie' = s.state_trie
                /\ storage_tries' = s.storage_tries
                /\ code' = s.code
                /\ state_mask' = s.state_mask
                /\ storage_masks' = s.storage_masks
                /\ batch_contract_code' = s.batch_contract_code
                /\ traces' = Tail(traces)
                /\ last_trace' = Some([addr |-> addr, trace |-> trc,
                                       born |-> TraceBorn(state_trie, addr),
                                       do_writes |-> TraceDoWrites(state_trie, addr, trc, receipt),
                                       status |-> map_receipt_bytes(receipt).bytes.status,
                                       mask_before |-> state_mask])
                /\ UNCHANGED << input, first_run, rpcVars, leaderVars, pc, result, error, batches, batch_rest, txn,
                                transaction_trie, receipt_trie, withdrawals, txn_ix, loop_ix,
                                loop_len, batch_first_txn_ix, batch_gas_used,
                                batch_byte_code, before, hook_runs, out, gens >>

\* the foot of the loop over a batch's slots (core.rs 480-484)
TxnEnd ==
    /\ pc = "trace"
    /\ traces = << >>
    /\ txn_ix' = IF IsSome(txn) THEN txn_ix + 1 ELSE txn_ix
    /\ loop_ix' = loop_ix + 1
    /\ batch_rest' = Tail(batch_rest)
    /\ last_trace' = None
    /\ pc' = "txn"
    /\ UNCHANGED << input, first_run, rpcVars, leaderVars, result, error, batches, traces, txn, state_trie, storage_tries,
                    transaction_trie, receipt_trie, code, withdrawals, loop_len,
                    batch_first_txn_ix, batch_gas_used, batch_byte_code,
                    batch_contract_code, before, storage_masks, state_mask, hook_runs,
                    out, gens >>

\* the foot of a batch (core.rs 486-532)
BatchEnd ==
    /\ pc = "txn"
    /\ batch_rest = << >>
    /\ LET final == IsFinalIteration(loop_ix, loop_len)
           wd == IF final
                 THEN ApplyWithdrawals([ok |-> TRUE, state_trie |-> state_trie,
                                        state_mask |-> state_mask], withdrawals)
                 ELSE [ok |-> TRUE, state_trie |-> state_trie, state_mask |-> state_mask]
       IN  IF ~wd.ok
           THEN Fail("missing address for withdrawal")
           ELSE /\ state_trie' = wd.state_trie
                /\ state_mask' = wd.state_mask
                /\ withdrawals' = IF final THEN << >> ELSE withdrawals
                /\ out' = Append(out,
                      [first_txn_ix |-> batch_first_txn_ix,
                       gas_used |-> batch_gas_used,
                       contract_code |-> batch_contract_code,
                       byte_code |-> batch_byte_code,
                       withdrawals |-> IF final THEN withdrawals ELSE << >>,
                       before |-> MaskBefore(before, wd.state_mask, storage_masks,
                                             batch_first_txn_ix, txn_ix),
                       after |-> [state_root |-> StateRoot(wd.state_trie),
                                  transactions_root |-> IndexTrieRoot(transaction_trie),
                                  receipts_root |-> IndexTrieRoot(receipt_trie)]])
                /\ pc' = IF batches = << >> THEN "collect" ELSE "batch"
                /\ UNCHANGED << input, first_run, rpcVars, leaderVars, result, error, batches, batch_rest, traces, txn,
                                last_trace, storage_tries, transaction_trie, receipt_trie,
                                code, txn_ix, loop_ix, loop_len, batch_first_txn_ix,
                                batch_gas_used, batch_byte_code, batch_contract_code,
                                before, storage_masks, hook_runs, gens >>

\* entrypoint after middle (core.rs 73-119)
Collect ==
    /\ pc = "collect"
    /\ gens' = GenerationInputs(out, 0)
    /\ result' = "ok"
    /\ pc' = "done"
    /\ UNCHANGED << input, first_run, rpcVars, leaderVars, error, batches, batch_rest, traces, txn, last_trace, state_trie,
                    storage_tries, transaction_trie, receipt_trie, code, withdrawals,
                    txn_ix, loop_ix, loop_len, batch_first_txn_ix, batch_gas_used,
                    batch_byte_code, batch_contract_code, before, storage_masks,
                    state_mask, hook_runs, out >>

Next ==
    \/ Entrypoint
    \/ PhaseA
    \/ BatchBegin
    \/ TxnBegin
    \/ Trace
    \/ TxnEnd
    \/ BatchEnd
    \/ Collect

Spec == Init /\ [][Next]_vars

(***************************************************************************)
(* The batcher alone, as test_batch calls it (core.rs 225-244).            *)
(***************************************************************************)
InputsBatch ==
    {[BaseInput EXCEPT !.txn_info = [i \in 1..n |-> Txn(<< >>, << 2, i >>, ReceiptOk, 0)],
                       !.batch_size_hint = h] :
        n \in 0..MaxBatchTxns, h \in 0..MaxBatchHint}

InitBatch == \E inp \in InputsBatch : InitWith(inp, "batch_call")

BatchCall ==
    /\ pc = "batch_call"
    /\ batches' = batch(input.txn_info, input.batch_size_hint)
    /\ pc' = "batch_done"
    /\ UNCHANGED << input, first_run, rpcVars, leaderVars, result, error, batch_rest, traces, txn, last_trace, state_trie,
                    storage_tries, transaction_trie, receipt_trie, code, withdrawals,
                    txn_ix, loop_ix, loop_len, batch_first_txn_ix, batch_gas_used,
                    batch_byte_code, batch_contract_code, before, storage_masks,
                    state_mask, hook_runs, out, gens >>

NextBatch == BatchCall

SpecBatch == InitBatch /\ [][NextBatch]_vars

(***************************************************************************)
(* Properties of the batcher.                                              *)
(***************************************************************************)
BatchLengths == [i \in 1..Len(batches) |-> Len(batches[i])]
BatchReturned == pc = "batch_done"

\* C1: for every transaction count n >= 0 and every hint >= 0, batch returns at
\* least 2 batches and the slots of all batches together are at least n.
C1_BatcherLaw ==
    BatchReturned =>
        /\ Len(batches) >= 2
        /\ SumSeq(BatchLengths) >= Len(input.txn_info)

\* C1 witness: the batcher has returned for an empty list with hint 0, and for
\* this state the result was padded.
C1_Witness ==
    /\ BatchReturned
    /\ Len(input.txn_info) = 0
    /\ input.batch_size_hint = 0
    /\ batches = << << None >>, << None >> >>

\* the policy of the batcher, by arithmetic on n and h = max(hint, 1)
RefLengths(n, hint) ==
    LET h == Max(hint, 1)
        k == (n + h - 1) \div h
    IN  IF k >= 2 THEN [i \in 1..k |-> IF i < k THEN h ELSE n - h * (k - 1)]
        ELSE IF n >= 2 THEN << n \div 2, n - (n \div 2) >>
        ELSE << 1, 1 >>

BatchCaseIs(n, hint, lengths) ==
    (Len(input.txn_info) = n /\ input.batch_size_hint = hint) => BatchLengths = lengths

\* C2: the lengths of the batches returned for n transactions and a hint are those
\* of the policy: h-sized chunks and a remainder when that gives two chunks or
\* more, else two halves (the first the smaller) when n >= 2, else [1, 1]; with
\* the seven cases of test_batch.
C2_BatchLengths ==
    BatchReturned =>
        /\ BatchLengths = RefLengths(Len(input.txn_info), input.batch_size_hint)
        /\ BatchCaseIs(0, 0, << 1, 1 >>)
        /\ BatchCaseIs(1, 0, << 1, 1 >>)
        /\ BatchCaseIs(2, 0, << 1, 1 >>)
        /\ BatchCaseIs(3, 0, << 1, 1, 1 >>)
        /\ BatchCaseIs(3, 1, << 1, 1, 1 >>)
        /\ BatchCaseIs(3, 2, << 2, 1 >>)
        /\ BatchCaseIs(3, 3, << 1, 2 >>)

\* C2 witness: a returned batch list for 5 transactions split in halves (hint 7).
C2_Witness ==
    /\ BatchReturned
    /\ Len(input.txn_info) = 5
    /\ input.batch_size_hint = 7
    /\ BatchLengths = << 2, 3 >>

(***************************************************************************)
(* Properties of the replay of one trace.  last_trace is set exactly in    *)
(* the state that follows the replay of a trace.                           *)
(***************************************************************************)
Replayed == last_trace # None
LastAddr == last_trace[1].addr
LastKey == Keccak(last_trace[1].addr)
ReadOnlyPrecompile ==
    /\ Replayed
    /\ ~last_trace[1].do_writes
    /\ LastAddr \in 1..9

\* C3 as stated: a read-only access to a precompile leaves the address out of
\* the state mask when the receipt status is success and adds it when the
\* status is failure.
C3_Original ==
    ReadOnlyPrecompile =>
        /\ last_trace[1].status =>
              (LastKey \in state_mask => LastKey \in last_trace[1].mask_before)
        /\ ~last_trace[1].status => LastKey \in state_mask

\* C3 amended: a read-only access to a precompile (0x01..0x09) adds the address
\* to the state mask when the receipt status is success, and does not add it
\* when the status is failure.
C3_PrecompileMask ==
    ReadOnlyPrecompile =>
        /\ last_trace[1].status => LastKey \in state_mask
        /\ ~last_trace[1].status =>
              (LastKey \in state_mask <=> LastKey \in last_trace[1].mask_before)

\* C3 witness: a failed transaction's read-only access to precompile 0x01 was
\* replayed and the address is not in the state mask.
C3_Witness ==
    /\ ReadOnlyPrecompile
    /\ LastAddr = Addr.pre1
    /\ ~last_trace[1].status
    /\ last_trace[1].trace = TxnTraceDefault
    /\ LastKey \notin state_mask

(***************************************************************************)
(* Properties of a whole run of middle.                                    *)
(***************************************************************************)
Returned == result = "ok"

TraceAddrs(info) == {info.traces[i][1] : i \in 1..Len(info.traces)}

\* the addresses the block touches: by a trace, the beacon hook or a withdrawal
Touched ==
    UNION {TraceAddrs(input.txn_info[i]) : i \in 1..Len(input.txn_info)}
    \cup {BEACON_ROOTS_CONTRACT_ADDRESS}
    \cup {input.withdrawals[i][1] : i \in 1..Len(input.withdrawals)}

Coherent(a) ==
    /\ storage_tries[Keccak(a)] # None
    /\ StorageRoot(storage_tries[Keccak(a)][1]) = state_trie[Keccak(a)][1].storage_root

\* C4: after middle has returned successfully, every touched account that is in
\* the state trie, created during the block or not, has a storage trie in the
\* storage map, and the root of that trie is the account's storage_root.
C4_StorageRootCoherence ==
    Returned => \A a \in Touched : state_trie[Keccak(a)] # None => Coherent(a)

\* C5: right after the replay of a trace with self_destructed set, the state
\* trie has no account at the address and the storage map has no entry for its
\* hash, whatever else the trace wrote.
C5_SelfDestruct ==
    (Replayed /\ last_trace[1].trace.self_destructed) =>
        /\ StateGet(state_trie, LastAddr) = None
        /\ storage_tries[LastKey] = None

\* C5 witness: a trace that writes balance, code and storage to an existing
\* account and self-destructs it was replayed with do_writes set.
C5_Witness ==
    /\ Replayed
    /\ last_trace[1].trace.self_destructed
    /\ last_trace[1].do_writes
    /\ ~last_trace[1].born
    /\ last_trace[1].trace.balance # None
    /\ last_trace[1].trace.storage_written # << >>
    /\ last_trace[1].trace.code_usage # None
    /\ StateGet(state_trie, LastAddr) = None

(***************************************************************************)
(* Properties of the generation inputs returned by entrypoint.             *)
(***************************************************************************)
\* the batches middle was given, recomputed from the arguments
InputBatches == batch(input.txn_info, input.batch_size_hint)

SlotGas(slot) == IF slot = None THEN 0 ELSE slot[1].meta.gas_used
BatchGas(b) == SumSeq([j \in 1..Len(b) |-> SlotGas(b[j])])
BlockGas == SumSeq([j \in 1..Len(input.txn_info) |-> input.txn_info[j].meta.gas_used])

\* C6: gas_used_before of the first generation input is 0; gas_used_before of
\* each later one is gas_used_after of its predecessor; each input's
\* gas_used_after - gas_used_before is the gas of its batch's transactions; so
\* gas_used_after never decreases and the last one is the gas of the block.
C6_GasAccounting ==
    Returned =>
        /\ Len(gens) = Len(InputBatches)
        /\ gens[1].gas_used_before = 0
        /\ \A i \in 1..(Len(gens) - 1) :
              /\ gens[i + 1].gas_used_before = gens[i].gas_used_after
              /\ gens[i + 1].gas_used_after >= gens[i].gas_used_after
        /\ \A i \in 1..Len(gens) :
              gens[i].gas_used_after - gens[i].gas_used_before = BatchGas(InputBatches[i])
        /\ gens[Len(gens)].gas_used_after = BlockGas

\* C6 witness: three transactions of gas 1, 2, 1 in batches of 2 and 1; the
\* second input starts at 3 and ends at 4.
C6_Witness ==
    /\ Returned
    /\ Len(gens) = 2
    /\ Len(InputBatches[1]) = 2
    /\ gens[1].gas_used_after = 3
    /\ gens[2].gas_used_before = 3
    /\ gens[2].gas_used_after = 4

\* C7: only the last generation input carries withdrawals; the others carry
\* none; the last one's list is the input list in the same order, each amount
\* being the gwei amount times 10^9.
C7_WithdrawalsOutput ==
    Returned =>
        /\ \A i \in 1..(Len(gens) - 1) : gens[i].withdrawals = << >>
        /\ Len(gens[Len(gens)].withdrawals) = Len(input.withdrawals)
        /\ \A j \in 1..Len(input.withdrawals) :
              /\ gens[Len(gens)].withdrawals[j][1] = input.withdrawals[j][1]
              /\ gens[Len(gens)].withdrawals[j][2].giga = input.withdrawals[j][2]
              /\ gens[Len(gens)].withdrawals[j][2].unit = 0

\* C7 witness: a returned block of three batches with two withdrawals, to carol
\* then alice, all on the last input.
C7_Witness ==
    /\ Returned
    /\ Len(gens) = 3
    /\ input.withdrawals = << << Addr.carol, 2 >>, << Addr.alice, 1 >> >>
    /\ gens[3].withdrawals = << << Addr.carol, Wei(2, 0) >>, << Addr.alice, Wei(1, 0) >> >>
    /\ gens[1].withdrawals = << >>

(***************************************************************************)
(* Properties of the end of a batch.                                       *)
(***************************************************************************)
\* the gwei withdrawn to an address over the whole input list
WithdrawnGwei(a) ==
    SumSeq([j \in 1..Len(input.withdrawals) |->
              IF input.withdrawals[j][1] = a THEN input.withdrawals[j][2] ELSE 0])
WithdrawalAddrs == {input.withdrawals[j][1] : j \in 1..Len(input.withdrawals)}

\* a batch ends without error
BatchEnds == pc = "txn" /\ batch_rest = << >> /\ pc' # "done"

C8_Step ==
    BatchEnds =>
        IF batches = << >>
        THEN /\ \A a \in Addrs :
                 StateGet(state_trie', a) =
                    IF a \in WithdrawalAddrs
                    THEN Some([StateGet(state_trie, a)[1] EXCEPT
                                 !.balance = U256Add(@, Wei(WithdrawnGwei(a), 0))])
                    ELSE StateGet(state_trie, a)
             /\ out'[Len(out')].after.state_root = StateRoot(state_trie')
             /\ \A a \in WithdrawalAddrs :
                    /\ Keccak(a) \in state_mask'
                    /\ Keccak(a) \in out'[Len(out')].before.state.keep
        ELSE /\ state_trie' = state_trie
             /\ out'[Len(out')].after.state_root = StateRoot(state_trie)
             /\ out'[Len(out')].withdrawals = << >>

\* C8: at the end of the last batch every withdrawal address has its balance
\* raised by the sum of its amounts times 10^9, the batch's after.state_root is
\* the root of that state, and every withdrawal address is in the batch's state
\* mask; the end of an earlier batch applies no withdrawal.
C8_WithdrawalApplication == [][C8_Step]_vars

\* C8 witness: the block has returned with two withdrawals of 1 and 2 gwei to
\* alice, whose balance went from 10 wei to 3 * 10^9 + 10 wei, and the last
\* batch out of three holds her address in its state mask.
C8_Witness ==
    /\ Returned
    /\ Len(out) = 3
    /\ input.withdrawals = << << Addr.alice, 1 >>, << Addr.alice, 2 >> >>
    /\ input.pre_state[Keccak(Addr.alice)][1].balance = Wei(0, 10)
    /\ StateGet(state_trie, Addr.alice)[1].balance = Wei(3, 10)
    /\ Keccak(Addr.alice) \in out[3].before.state.keep
    /\ Keccak(Addr.alice) \notin out[2].before.state.keep

(***************************************************************************)
(* Properties of the beacon hook.  AfterHook is the state in which the     *)
(* first batch has been entered and the hook has just returned.            *)
(***************************************************************************)
AfterHook == pc = "txn" /\ loop_ix = 0 /\ hook_runs = 1

BeaconKey == Keccak(BEACON_ROOTS_CONTRACT_ADDRESS)
BeaconTrie == storage_tries[BeaconKey][1]
BeaconMask == storage_masks[BEACON_ROOTS_CONTRACT_ADDRESS][1]
HistorySlot == Keccak(input.block_timestamp % 8191)
HistorySlotNext == Keccak((input.block_timestamp % 8191) + 8191)

\* C9: with a timestamp t # 0 and a parent beacon block root r # 0, after the
\* hook the beacon storage trie maps slot keccak(t mod 8191) to rlp(t) and slot
\* keccak((t mod 8191) + 8191) to rlp(r), the beacon account's storage_root is
\* the root of that trie, both slots are in the beacon storage mask and the
\* beacon address is in the state mask.
C9_BeaconHookWrites ==
    (AfterHook /\ input.block_timestamp # 0 /\ input.parent_beacon_block_root # 0) =>
        /\ BeaconTrie.m[HistorySlot] = Rlp(input.block_timestamp)
        /\ BeaconTrie.m[HistorySlotNext] = Rlp(input.parent_beacon_block_root)
        /\ state_trie[BeaconKey][1].storage_root = StorageRoot(BeaconTrie)
        /\ {HistorySlot, HistorySlotNext} \subseteq BeaconMask
        /\ BeaconKey \in state_mask

\* C9 witness: the hook ran for t = 8192 and r = 300: slot 1 holds rlp(8192) and
\* slot 8192 holds rlp(300), over a beacon storage that held other values.
C9_Witness ==
    /\ AfterHook
    /\ input.block_timestamp = 8192
    /\ input.parent_beacon_block_root = 300
    /\ input.pre_storage[BeaconKey][1].m[Keccak(1)] = << 8 >>
    /\ BeaconTrie.m[Keccak(1)] = << 130, 32, 0 >>
    /\ BeaconTrie.m[Keccak(8192)] = << 130, 1, 44 >>

PreBeaconMap == input.pre_storage[BeaconKey][1].m

\* C10: with timestamp 0 and parent beacon block root 0 both writes of the hook
\* are removals (slots 0 and 8191 end absent, no slot holds an encoded zero and
\* no other slot changes), the keys reported by each removal are in the beacon
\* storage mask, and the state trie changes only in the beacon account's
\* storage_root, which becomes the root of the beacon storage trie.
C10_BeaconHookZero ==
    (AfterHook /\ input.block_timestamp = 0 /\ input.parent_beacon_block_root = 0) =>
        /\ BeaconTrie.m = [PreBeaconMap EXCEPT ![Keccak(0)] = << >>, ![Keccak(8191)] = << >>]
        /\ \A k \in SlotKeys : BeaconTrie.m[k] # Rlp(0)
        /\ Collapsed(PreBeaconMap, Keccak(0)) \subseteq BeaconMask
        /\ Collapsed([PreBeaconMap EXCEPT ![Keccak(0)] = << >>], Keccak(8191))
              \subseteq BeaconMask
        /\ state_trie =
              [input.pre_state EXCEPT ![BeaconKey] =
                  Some([input.pre_state[BeaconKey][1] EXCEPT
                          !.storage_root = StorageRoot(BeaconTrie)])]

\* C10 witness: the hook ran with zero values over a beacon storage holding slots
\* 0 and 1: slot 0 was removed, its sibling slot 1 was admitted to the mask, and
\* the beacon account's storage_root changed.
C10_Witness ==
    /\ AfterHook
    /\ input.block_timestamp = 0
    /\ input.parent_beacon_block_root = 0
    /\ PreBeaconMap[Keccak(0)] = << 9 >>
    /\ BeaconTrie.m[Keccak(0)] = << >>
    /\ Keccak(1) \in BeaconMask
    /\ state_trie[BeaconKey][1].storage_root # input.pre_state[BeaconKey][1].storage_root

(***************************************************************************)
(* Properties of the schedule of the beacon hook.  hook_runs counts the    *)
(* executions of do_beacon_hook; Len(out) is the number of finished        *)
(* batches.                                                                *)
(***************************************************************************)
InBatch == pc \in {"txn", "trace"}
EmptyBlock == input.txn_info = << >>

DummyOnly(i) == \A j \in 1..Len(InputBatches[i]) : InputBatches[i][j] = None

\* the roots of a batch's (masked) before snapshot
BeforeStateRoot(b) == StateRoot(b.before.state.m)
BeforeTransactionsRoot(b) == IndexTrieRoot(b.before.transaction.m)
BeforeReceiptsRoot(b) == IndexTrieRoot(b.before.receipt.m)

\* C12 as stated: every batch of dummy slots only has after roots (state,
\* transactions, receipts) equal to the roots of its before snapshot and
\* gas_used 0; an empty block without withdrawals gives exactly 2 batches, each
\* with after.state_root equal to its before state root, and a last
\* gas_used_after of 0.
C12_Original ==
    Returned =>
        /\ \A i \in 1..Len(out) : DummyOnly(i) =>
              /\ out[i].after.state_root = BeforeStateRoot(out[i])
              /\ out[i].after.transactions_root = BeforeTransactionsRoot(out[i])
              /\ out[i].after.receipts_root = BeforeReceiptsRoot(out[i])
              /\ out[i].gas_used = 0
        /\ (EmptyBlock /\ input.withdrawals = << >>) =>
              /\ Len(gens) = 2
              /\ gens[2].gas_used_after = 0

\* C12 amended: every batch of dummy slots only has after transactions and
\* receipts roots equal to those of its before snapshot and gas_used 0, and its
\* after state root equals its before state root unless it is the first batch
\* of the block (the beacon hook writes there) or the last batch of a block
\* with withdrawals (it applies them); an empty block without withdrawals gives
\* exactly 2 batches, the second with after.state_root equal to its before
\* state root, and a last gas_used_after of 0.
C12_DummyBatches ==
    Returned =>
        /\ \A i \in 1..Len(out) : DummyOnly(i) =>
              /\ out[i].after.transactions_root = BeforeTransactionsRoot(out[i])
              /\ out[i].after.receipts_root = BeforeReceiptsRoot(out[i])
              /\ out[i].gas_used = 0
              /\ (i # 1 /\ (i # Len(out) \/ input.withdrawals = << >>)) =>
                    out[i].after.state_root = BeforeStateRoot(out[i])
        /\ (EmptyBlock /\ input.withdrawals = << >>) =>
              /\ Len(out) = 2
              /\ Len(gens) = 2
              /\ out[2].after.state_root = BeforeStateRoot(out[2])
              /\ gens[2].gas_used_after = 0

\* C12 witness: an empty block without withdrawals has returned two dummy
\* batches; the hook changed the state root in the first, the second kept it.
C12_Witness ==
    /\ Returned
    /\ EmptyBlock
    /\ input.withdrawals = << >>
    /\ Len(out) = 2
    /\ out[1].after.state_root # BeforeStateRoot(out[1])
    /\ out[2].after.state_root = BeforeStateRoot(out[2])
    /\ gens[2].gas_used_after = 0

(***************************************************************************)
(* Two calls of entrypoint on the same input, one after the other.  The    *)
(* first call's outcome is kept in first_run and the second call starts    *)
(* from the state after construction; the order in which code_db is        *)
(* iterated is free in each call.                                          *)
(***************************************************************************)
Outcome == [result |-> result, error |-> error, gens |-> gens]

Rerun ==
    /\ pc = "done"
    /\ first_run = None
    /\ first_run' = Some(Outcome)
    /\ pc' = "entry"
    /\ result' = "running"
    /\ error' = ""
    /\ batches' = << >>
    /\ batch_rest' = << >>
    /\ traces' = << >>
    /\ txn' = None
    /\ last_trace' = None
    /\ state_trie' = [h \in HAddrs |-> None]
    /\ storage_tries' = [h \in HAddrs |-> None]
    /\ transaction_trie' = IndexTrieNew
    /\ receipt_trie' = IndexTrieNew
    /\ code' = {}
    /\ withdrawals' = << >>
    /\ txn_ix' = 0
    /\ loop_ix' = 0
    /\ loop_len' = 0
    /\ batch_first_txn_ix' = 0
    /\ batch_gas_used' = 0
    /\ batch_byte_code' = << >>
    /\ batch_contract_code' = {}
    /\ before' = EmptySnapshot
    /\ storage_masks' = NoMasks
    /\ state_mask' = {}
    /\ hook_runs' = 0
    /\ out' = << >>
    /\ gens' = << >>
    /\ UNCHANGED << input, rpcVars, leaderVars >>

NextTwice ==
    \/ Next
    \/ Rerun

SpecTwice == Init /\ [][NextTwice]_vars

SecondReturned == pc = "done" /\ first_run # None

InitBoth == Init \/ InitBatch

NextBoth ==
    \/ Next
    \/ NextBatch

SpecBoth == InitBoth /\ [][NextBoth]_vars

\* the entrypoint has left its first statement
EntrypointCalled == pc \notin {"entry", "batch_call", "batch_done"}

\* nothing was parsed, replayed or emitted
NothingDone ==
    /\ state_trie = [h \in HAddrs |-> None]
    /\ storage_tries = [h \in HAddrs |-> None]
    /\ code = {}
    /\ batches = << >>
    /\ transaction_trie = IndexTrieNew
    /\ receipt_trie = IndexTrieNew
    /\ txn_ix = 0
    /\ loop_ix = 0
    /\ hook_runs = 0
    /\ out = << >>
    /\ gens = << >>

\* one batch per transaction, padded to two batches
SingletonBatches(txns) ==
    IF Len(txns) >= 2 THEN [i \in 1..Len(txns) |-> << Some(txns[i]) >>]
    ELSE IF Len(txns) = 1 THEN << << Some(txns[1]) >>, << None >> >>
    ELSE << << None >>, << None >> >>

\* C15: entrypoint called with batch_size_hint = 0 returns an error before it
\* parses a pre-image or replays a transaction, and emits no generation input;
\* batch called with hint 0 returns what it returns with hint 1: one batch per
\* transaction, padded to two.
C15_HintZero ==
    /\ (EntrypointCalled /\ input.batch_size_hint = 0) =>
          /\ pc = "done"
          /\ result = "err"
          /\ error # ""
          /\ NothingDone
    /\ (BatchReturned /\ input.batch_size_hint \in {0, 1}) =>
          batches = SingletonBatches(input.txn_info)

\* C15 witness: entrypoint has refused a block of three transactions given with
\* hint 0, nothing done.
C15_Witness ==
    /\ EntrypointCalled
    /\ input.batch_size_hint = 0
    /\ Len(input.txn_info) = 3
    /\ result = "err"
    /\ NothingDone

(***************************************************************************)
(* Properties of the initialisation of the storage tries (Phase A).        *)
(***************************************************************************)
InconsistentMsg == "inconsistent initial storage for hashed address"

\* some account of the initial state has a supplied storage trie whose root is
\* not the account's storage_root
SuppliedMismatch ==
    \E h \in HAddrs :
        /\ input.pre_state[h] # None
        /\ input.pre_storage[h] # None
        /\ StorageRoot(input.pre_storage[h][1]) # input.pre_state[h][1].storage_root

\* middle has gone through its initialisation, or failed in it
PhaseADone == EntrypointCalled /\ pc # "phase_a" /\ input.batch_size_hint # 0

\* middle is about to enter its first batch
BeforeFirstBatch == pc = "batch" /\ out = << >> /\ hook_runs = 0

\* C16: middle fails with the inconsistent-initial-storage error, before any
\* batch is processed, if and only if some account of the initial state trie
\* has a supplied storage trie whose root differs from its storage_root; an
\* account without supplied trie gets a hash-only trie of its storage_root, so
\* that after Phase A every account of the initial state trie has a storage
\* trie with a matching root.
C16_PhaseA ==
    /\ PhaseADone =>
          /\ (error = InconsistentMsg) <=> SuppliedMismatch
          /\ (error = InconsistentMsg) =>
                result = "err" /\ out = << >> /\ hook_runs = 0 /\ loop_ix = 0
    /\ BeforeFirstBatch =>
          \A h \in HAddrs : input.pre_state[h] # None =>
              /\ storage_tries[h] # None
              /\ StorageRoot(storage_tries[h][1]) = state_trie[h][1].storage_root
              /\ storage_tries[h] =
                    IF input.pre_storage[h] = None
                    THEN Some(StorageHashOnly(input.pre_state[h][1].storage_root))
                    ELSE input.pre_storage[h]

\* C16 witness: Phase A has passed for a state where alice's storage trie was
\* not supplied: she has the hash-only trie of her storage_root.
C16_Witness ==
    /\ BeforeFirstBatch
    /\ input.pre_storage[Keccak(Addr.alice)] = None
    /\ storage_tries[Keccak(Addr.alice)] = Some([hashed |-> TRUE, m |-> AliceStorage])
    /\ state_trie[Keccak(Addr.alice)][1].storage_root = Root(AliceStorage)

(***************************************************************************)
(* Properties of one step of the loop over traces.  The trace about to be  *)
(* replayed is the head of traces; it is committed when its receipt        *)
(* decodes and do_writes holds for it.                                     *)
(***************************************************************************)
TraceStep == pc = "trace" /\ traces # << >>
StepAddr == Head(traces)[1]
StepTrace == Head(traces)[2]
StepReceipt == txn[1].meta.new_receipt_trie_node_byte
StepCommitted ==
    /\ map_receipt_bytes(StepReceipt).ok
    /\ TraceDoWrites(state_trie, StepAddr, StepTrace, StepReceipt)
StepFailed == pc' = "done"
StepUsage == StepTrace.code_usage
StepReads == StepUsage # None /\ StepUsage[1].kind = "Read"
StepWrites == StepUsage # None /\ StepUsage[1].kind = "Write"
UnknownCodeMsg == "no code for hash"

\* what the step leaves in the account, unless the trace destroys it
CodeHashSet(h) ==
    StepTrace.self_destructed \/ StateGet(state_trie', StepAddr)[1].code_hash = h

C17_Step ==
    /\ (pc = "entry" /\ pc' = "phase_a") => code' = {EmptyCode} \cup input.code_db
    /\ (pc # "entry" /\ ~TraceStep) => code' = code
    /\ (TraceStep /\ ~StepFailed) =>
          code' = IF StepCommitted /\ StepWrites
                  THEN code \cup {StepUsage[1].arg} ELSE code
    /\ (TraceStep /\ ~StepFailed /\ ~StepCommitted) =>
          batch_contract_code' = batch_contract_code
    /\ (TraceStep /\ StepCommitted /\ StepReads) =>
          IF \E c \in code : Keccak(c) = StepUsage[1].arg
          THEN /\ error' # UnknownCodeMsg
               /\ ~StepFailed =>
                     /\ CodeHashSet(StepUsage[1].arg)
                     /\ \E c \in batch_contract_code' : Keccak(c) = StepUsage[1].arg
                     /\ batch_contract_code \subseteq batch_contract_code'
          ELSE /\ StepFailed
               /\ result' = "err"
               /\ error' = UnknownCodeMsg
    /\ (TraceStep /\ StepCommitted /\ StepWrites /\ ~StepFailed) =>
          /\ CodeHashSet(Keccak(StepUsage[1].arg))
          /\ batch_contract_code' = batch_contract_code \cup {StepUsage[1].arg}

StepKey == Keccak(StepAddr)
StepAccount == StateGet(state_trie, StepAddr)[1]
StepAccountAfter == StateGet(state_trie', StepAddr)[1]

\* the trace writes one slot, with a value that is not zero, to an account that
\* exists and whose storage trie is empty, and does not destroy the account
SstoreStep ==
    /\ TraceStep
    /\ StepCommitted
    /\ ~TraceBorn(state_trie, StepAddr)
    /\ storage_tries[StepKey] = Some(StorageTrieDefault)
    /\ Len(StepTrace.storage_written) = 1
    /\ StepTrace.storage_written[1][2] # 0
    /\ ~StepTrace.self_destructed

C18_Step ==
    SstoreStep =>
        /\ StepUsage = None => ~StepFailed
        /\ ~StepFailed =>
              /\ storage_tries'[StepKey] # None
              /\ ~storage_tries'[StepKey][1].hashed
              /\ storage_tries'[StepKey][1].m =
                    [EmptyMap EXCEPT ![Keccak(StepTrace.storage_written[1][1])] =
                                        Rlp(StepTrace.storage_written[1][2])]
              /\ StepAccountAfter.storage_root = StorageRoot(storage_tries'[StepKey][1])
              /\ StepTrace.balance = None => StepAccountAfter.balance = StepAccount.balance
              /\ StepTrace.nonce = None => StepAccountAfter.nonce = StepAccount.nonce
              /\ StepUsage = None => StepAccountAfter.code_hash = StepAccount.code_hash

\* C18: a trace with storage_written = {k: v}, v # 0, applied to an existing
\* account whose storage trie is empty leaves a storage trie with the single
\* entry keccak(k) -> rlp(v); the account re-inserted in the state trie has the
\* root of that trie as storage_root, and the balance, nonce and code_hash it
\* had when the trace does not set them.
C18_StorageWrite == [][C18_Step]_vars

\* C18 witness: the write of 300 to slot 1 of carol, whose storage was empty,
\* was replayed: her trie holds rlp(300) alone and her account its root, with
\* the balance, nonce and code she had.
C18_Witness ==
    /\ Replayed
    /\ LastAddr = Addr.carol
    /\ last_trace[1].trace = [TxnTraceDefault EXCEPT !.storage_written = << << 1, 300 >> >>]
    /\ storage_tries[LastKey][1].m = [EmptyMap EXCEPT ![Keccak(1)] = << 130, 1, 44 >>]
    /\ StateGet(state_trie, Addr.carol)[1] =
          [input.pre_state[LastKey][1] EXCEPT
              !.storage_root = Root([EmptyMap EXCEPT ![Keccak(1)] = << 130, 1, 44 >>])]

\* the trace only reads storage slots, of an account that exists
SloadStep ==
    /\ TraceStep
    /\ map_receipt_bytes(StepReceipt).ok
    /\ ~TraceBorn(state_trie, StepAddr)
    /\ StepTrace.storage_read # {}
    /\ StepTrace = [TxnTraceDefault EXCEPT !.storage_read = StepTrace.storage_read]

StepStorageMask ==
    IF storage_masks[StepAddr] = None THEN {} ELSE storage_masks[StepAddr][1]

C19_Step ==
    SloadStep =>
        /\ ~StepFailed
        /\ StateRoot(state_trie') = StateRoot(state_trie)
        /\ StepAccountAfter.storage_root = StepAccount.storage_root
        /\ storage_tries' = storage_tries
        /\ storage_masks'[StepAddr] =
              Some(StepStorageMask \cup {Keccak(k) : k \in StepTrace.storage_read})
        /\ state_mask' = state_mask \cup {StepKey}

\* C19: a trace on an existing account that holds storage_read entries only (no
\* balance, nonce, code usage, storage write or self-destruct) leaves the state
\* root and the account's storage root unchanged, adds the hashed read slots to
\* the address's storage mask and the address to the state mask.
C19_StorageRead == [][C19_Step]_vars

\* C19 witness: the read of slots 0 and 1 of carol was replayed: both hashed
\* slots are in her storage mask, her address is in the state mask, and the
\* state trie is the one after the beacon hook.
C19_Witness ==
    /\ Replayed
    /\ LastAddr = Addr.carol
    /\ last_trace[1].trace = [TxnTraceDefault EXCEPT !.storage_read = {0, 1}]
    /\ storage_masks[Addr.carol] = Some({Keccak(0), Keccak(1)})
    /\ LastKey \in state_mask
    /\ LastKey \notin last_trace[1].mask_before
    /\ StateGet(state_trie, Addr.carol) = input.pre_state[LastKey]

(***************************************************************************)
(* Properties of the chain of batches.                                     *)
(***************************************************************************)
\* the roots of the tries of a batch's before snapshot
BeforeRoots(b) ==
    [state_root |-> BeforeStateRoot(b),
     transactions_root |-> BeforeTransactionsRoot(b),
     receipts_root |-> BeforeReceiptsRoot(b)]

\* the roots before the block: the initial state, no transaction, no receipt
InitialRoots ==
    [state_root |-> StateRoot(input.pre_state),
     transactions_root |-> IndexTrieRoot(IndexTrieNew),
     receipts_root |-> IndexTrieRoot(IndexTrieNew)]

C20_Roots ==
    (pc \notin {"entry", "phase_a"} /\ out # << >>) =>
        /\ BeforeRoots(out[1]) = InitialRoots
        /\ \A i \in 2..Len(out) : BeforeRoots(out[i]) = out[i - 1].after

\* inside a batch the snapshot stays as taken, whatever the live tries become;
\* at the end of the batch it is emitted masked, with the roots it had
C20_Step ==
    /\ (InBatch /\ pc' \in {"txn", "trace"}) => before' = before
    /\ (InBatch /\ Len(out') = Len(out) + 1) =>
          BeforeRoots(out'[Len(out')]) =
              [state_root |-> StateRoot(before.state),
               transactions_root |-> IndexTrieRoot(before.transaction),
               receipts_root |-> IndexTrieRoot(before.receipt)]

\* C20: the roots of the first batch's before tries are the roots of the initial
\* state trie and of the empty transaction and receipt tries (the snapshot is
\* taken before the beacon hook); the state, transaction and receipt roots of
\* every later batch's before tries are the after roots of the batch before it;
\* masking the snapshot changes no root, and the mutations of the live tries
\* leave a snapshot already taken as it was.
C20_BatchChaining == []C20_Roots /\ [][C20_Step]_vars

\* C20 witness: a block has returned two batches whose roots all differ: the
\* hook and a trace changed the state in the first batch, a trace in the
\* second, and the second batch starts from the roots the first ended with.
C20_Witness ==
    /\ Returned
    /\ Len(out) = 2
    /\ BeforeRoots(out[1]) = InitialRoots
    /\ out[1].after.state_root # BeforeStateRoot(out[1])
    /\ out[2].after.state_root # out[1].after.state_root
    /\ BeforeRoots(out[2]) = out[1].after
    /\ out[2].after.transactions_root # out[1].after.transactions_root
    /\ out[2].after.receipts_root # out[1].after.receipts_root

(***************************************************************************)
(* The commit rule of a trace.                                             *)
(***************************************************************************)
StepDecodes == map_receipt_bytes(StepReceipt).ok
StepStatus == map_receipt_bytes(StepReceipt).bytes.status
StepBorn == StateGet(state_trie, StepAddr) = None
StepSlots == {Keccak(k) : k \in WrittenKeys(StepTrace.storage_written) \cup StepTrace.storage_read}

\* the rule as the claim states it
RuleCommits == StepTrace # TxnTraceDefault /\ (~StepBorn \/ StepStatus)

\* what a committed trace leaves in the account it is replayed on
AccountApplied ==
    /\ StateGet(state_trie', StepAddr) # None
    /\ StepTrace.balance # None => StepAccountAfter.balance = StepTrace.balance[1]
    /\ StepTrace.nonce # None => StepAccountAfter.nonce = StepTrace.nonce[1]
    /\ StepWrites => StepAccountAfter.code_hash = Keccak(StepUsage[1].arg)
    /\ StepReads => StepAccountAfter.code_hash = StepUsage[1].arg
    /\ StepTrace.storage_written # << >> =>
          /\ storage_tries'[StepKey] # None
          /\ \A i \in 1..Len(StepTrace.storage_written) :
                storage_tries'[StepKey][1].m[Keccak(StepTrace.storage_written[i][1])] =
                    IF StepTrace.storage_written[i][2] = 0 THEN << >>
                    ELSE Rlp(StepTrace.storage_written[i][2])
          /\ StepAccountAfter.storage_root = StorageRoot(storage_tries'[StepKey][1])

C21_Step ==
    (TraceStep /\ StepDecodes) =>
        /\ ~RuleCommits =>
              /\ ~StepFailed
              /\ state_trie' = state_trie
              /\ code' = code
              /\ batch_contract_code' = batch_contract_code
              /\ ~StepTrace.self_destructed => storage_tries' = storage_tries
              /\ storage_masks'[StepAddr] = Some(StepStorageMask \cup StepSlots)
        /\ (RuleCommits /\ ~StepFailed) =>
              /\ StepKey \in state_mask'
              /\ StepSlots \subseteq storage_masks'[StepAddr][1]
              /\ StepWrites => StepUsage[1].arg \in code'
              /\ ~StepTrace.self_destructed => AccountApplied

InclusivePrecompile(addr) == 1 <= addr /\ addr <= 10

\* C22: the read-only rule of the state mask treats 0x01 through 0x0a
\* inclusive as precompiles: a read-only access adds the address to the state
\* mask exactly when the receipt status is success or the address is outside
\* 0x01..0x0a, so 0x0a goes with 0x01..0x09, and 0x00 and 0x0b are ordinary.
C22_InclusiveRange ==
    (Replayed /\ ~last_trace[1].do_writes /\ LastKey \notin last_trace[1].mask_before) =>
        (LastKey \in state_mask <=>
            (last_trace[1].status \/ ~InclusivePrecompile(LastAddr)))

(***************************************************************************)
(* Transaction indexing.                                                   *)
(***************************************************************************)
\* the number of real (Some) transactions of a batch, and of the batches before it
RealIn(b) == Cardinality({j \in 1..Len(b) : b[j] # None})
RealBefore(i) == SumSeq([k \in 1..(i - 1) |-> RealIn(InputBatches[k])])
TxnEnds == pc = "trace" /\ traces = << >>

C23_Step ==
    IF TxnEnds
    THEN /\ txn_ix' = (IF txn # None THEN txn_ix + 1 ELSE txn_ix)
         /\ loop_ix' = loop_ix + 1
    ELSE txn_ix' = txn_ix /\ loop_ix' = loop_ix

C23_Indices ==
    Returned =>
        /\ \A i \in 1..Len(out) :
              /\ out[i].first_txn_ix = RealBefore(i)
              /\ i > 1 => out[i - 1].first_txn_ix <= out[i].first_txn_ix
              /\ out[i].before.transaction.keep =
                    out[i].first_txn_ix ..
                        (out[i].first_txn_ix + RealIn(InputBatches[i]) - 1)
              /\ out[i].before.receipt.keep = out[i].before.transaction.keep
        /\ \A i \in 1..Len(input.txn_info) :
              /\ << i - 1, input.txn_info[i].meta.byte_code >> \in transaction_trie
              /\ << i - 1, map_receipt_bytes(
                              input.txn_info[i].meta.new_receipt_trie_node_byte).bytes >>
                    \in receipt_trie

\* C23: txn_ix advances by exactly 1 for each real transaction and never for a
\* dummy, loop_ix by 1 for every slot; first_txn_ix of a batch is the number of
\* real transactions of the batches before it and never decreases; the i-th
\* real transaction of the block is in the transaction trie, and its receipt in
\* the receipt trie, at key i; the transaction and receipt masks of a batch are
\* the indices from first_txn_ix up to first_txn_ix + (its real transactions).
C23_TxnIndexing == []C23_Indices /\ [][C23_Step]_vars

\* the byte_code of the real transactions of a batch, in order
RECURSIVE RealByteCodes(_)
RealByteCodes(b) ==
    IF b = << >> THEN << >>
    ELSE (IF Head(b) = None THEN << >> ELSE << Head(b)[1].meta.byte_code >>)
         \o RealByteCodes(Tail(b))

\* txn_ix after the i-th batch: first_txn_ix of the next one, or the final txn_ix
TxnIxAfter(i) == IF i < Len(out) THEN out[i + 1].first_txn_ix ELSE txn_ix

\* C24: byte_code of a batch holds exactly one entry for each real transaction
\* of the batch, in transaction order, its length is txn_ix after the batch
\* minus first_txn_ix, and the transaction trie after the batch has an entry
\* for every index below txn_ix.
C24_ByteCode ==
    /\ Returned =>
          \A i \in 1..Len(out) :
              /\ out[i].byte_code = RealByteCodes(InputBatches[i])
              /\ Len(out[i].byte_code) = TxnIxAfter(i) - out[i].first_txn_ix
    /\ (pc = "txn" /\ batch_rest = << >>) =>
          \A k \in 0..(txn_ix - 1) : \E p \in transaction_trie : p[1] = k

(***************************************************************************)
(* Zero is a deletion.                                                     *)
(***************************************************************************)
\* the storage map the trace's writes start from
StartMap == IF storage_tries[StepKey] = None THEN EmptyMap ELSE storage_tries[StepKey][1].m

\* the storage map after the first n writes of the trace: each slot holds the
\* RLP of the last value written to it, or nothing when that value is 0
MapAfter(n) ==
    [k \in SlotKeys |->
        LET js == {j \in 1..n : Keccak(StepTrace.storage_written[j][1]) = k}
            last == CHOOSE j \in js : \A l \in js : l <= j
            v == StepTrace.storage_written[last][2]
        IN  IF js = {} THEN StartMap[k]
            ELSE IF v = 0 THEN << >> ELSE Rlp(v)]

ZeroWrites == {i \in 1..Len(StepTrace.storage_written) : StepTrace.storage_written[i][2] = 0}

C25_Step ==
    (TraceStep /\ StepDecodes /\ RuleCommits /\ ~StepFailed
        /\ ~StepTrace.self_destructed /\ StepTrace.storage_written # << >>) =>
        /\ storage_tries'[StepKey][1].m = MapAfter(Len(StepTrace.storage_written))
        /\ \A i \in ZeroWrites :
              /\ storage_tries'[StepKey][1].m[Keccak(StepTrace.storage_written[i][1])]
                    # Rlp(0)
              /\ Collapsed(MapAfter(i - 1), Keccak(StepTrace.storage_written[i][1]))
                    \subseteq storage_masks'[StepAddr][1]
        /\ (\A i \in 1..Len(StepTrace.storage_written) :
                /\ i \in ZeroWrites
                /\ StartMap[Keccak(StepTrace.storage_written[i][1])] = << >>) =>
              /\ storage_tries'[StepKey][1].m = StartMap
              /\ StorageRoot(storage_tries'[StepKey][1]) = Root(StartMap)
              /\ StepAccountAfter.storage_root = Root(StartMap)

C25_NoZeroEntry ==
    \A h \in HAddrs : storage_tries[h] # None =>
        \A k \in SlotKeys : storage_tries[h][1].m[k] # Rlp(0)

\* C25: zero is never stored.  A committed write of 0 to a slot is a deletion:
\* afterwards the storage trie has no entry at the hashed slot and the keys the
\* removal reports are in the address's storage mask; when the slot was absent
\* the trie and its root are unchanged.  After any trace writes and hook
\* writes no storage trie holds the encoding of 0.
C25_ZeroIsDeletion == []C25_NoZeroEntry /\ [][C25_Step]_vars

\* C25 witness: a trace that writes 0 to slot 0 of alice, who holds slots 0 and
\* 1, was committed: slot 0 is gone, and slot 1, which the removal reports, is
\* in her storage mask.
C25_Witness ==
    /\ Replayed
    /\ LastAddr = Addr.alice
    /\ last_trace[1].do_writes
    /\ last_trace[1].trace = [TxnTraceDefault EXCEPT !.storage_written = << << 0, 0 >> >>]
    /\ input.pre_storage[LastKey] = Some([hashed |-> FALSE, m |-> AliceStorage])
    /\ storage_tries[LastKey][1].m[Keccak(0)] = << >>
    /\ storage_masks[Addr.alice] = Some({Keccak(0), Keccak(1)})

(***************************************************************************)
(* The batcher keeps the transactions.                                     *)
(***************************************************************************)
Slots26 == Flatten(batches)
IsReal(slot) == slot # None
RealSlots == SelectSeq(Slots26, IsReal)
NoneSlots == {i \in 1..Len(Slots26) : Slots26[i] = None}

\* C26: batch neither drops, duplicates nor reorders: the batches concatenated,
\* with the None slots left out, are the input list in its order; None slots
\* appear only for n <= 1, exactly 2 - n of them, each in a batch of its own
\* and after any real transaction; and no batch is empty.
C26_Permutation ==
    BatchReturned =>
        /\ RealSlots = SeqMap(Some, input.txn_info)
        /\ Cardinality(NoneSlots) =
              (IF Len(input.txn_info) <= 1 THEN 2 - Len(input.txn_info) ELSE 0)
        /\ \A i \in 1..Len(batches) :
              /\ batches[i] # << >>
              /\ (\E j \in 1..Len(batches[i]) : batches[i][j] = None) =>
                    Len(batches[i]) = 1
        /\ \A i \in NoneSlots : \A j \in 1..Len(Slots26) : j > i => Slots26[j] = None

\* C26 witness: a single transaction came back in a batch of its own, followed
\* by one dummy batch.
C26_Witness ==
    /\ BatchReturned
    /\ Len(input.txn_info) = 1
    /\ batches = << << Some(input.txn_info[1]) >>, << None >> >>
    /\ RealSlots = << Some(input.txn_info[1]) >>

(***************************************************************************)
(* The storage trie of an account that is written to.                      *)
(***************************************************************************)
\* the next trace to replay is a committed one with storage writes on an
\* address that has an account
WritesExisting ==
    /\ pc = "trace"
    /\ traces # << >>
    /\ Head(traces)[2].storage_written # << >>
    /\ StateGet(state_trie, Head(traces)[1]) # None

\* C27: after Phase A the error 'missing storage trie' is unreachable for an
\* address present in the state trie: whenever a committed trace with storage
\* writes is about to be replayed on an account of the state trie, from the
\* pre-state or created earlier in the block, the storage map has an entry for
\* the hashed address.
C27_NoMissingTrie ==
    /\ WritesExisting => storage_tries[Keccak(Head(traces)[1])] # None
    /\ error # "missing storage trie for address"

(***************************************************************************)
(* What the masks of a batch cover.                                        *)
(***************************************************************************)
\* the batch that is ending, as batch returned it, and the addresses of its traces
EndingBatch == InputBatches[Len(out) + 1]
BatchTraceAddrs ==
    UNION {TraceAddrs(EndingBatch[j][1]) : j \in {i \in 1..Len(EndingBatch) : EndingBatch[i] # None}}
\* the addresses whose storage the batch touches: those of its traces, and the
\* beacon contract when the batch ran the hook
BatchStorageAddrs ==
    BatchTraceAddrs \cup (IF batch_first_txn_ix = 0 THEN {BEACON_ROOTS_CONTRACT_ADDRESS} ELSE {})
EndedBatch == out'[Len(out')]

C28_Step ==
    BatchEnds =>
        /\ \A a \in Addrs :
              before.state[Keccak(a)] # state_trie'[Keccak(a)] =>
                  /\ Keccak(a) \in state_mask'
                  /\ Keccak(a) \in EndedBatch.before.state.keep
        /\ \A a \in Addrs :
              EndedBatch.before.storage[Keccak(a)] # None
                  <=> (a \in BatchStorageAddrs /\ before.storage[Keccak(a)] # None)

\* C28: for every batch, the key of every address whose state-trie entry
\* differs between the before snapshot and the state after the batch is in the
\* state mask applied to before.state; and before.storage keeps a storage trie
\* for exactly the hashed addresses that are a trace address of the batch (or
\* the beacon contract when the hook ran) and had a storage trie when the
\* batch started.
C28_MaskCoverage == [][C28_Step]_vars

\* C28 witness: the first batch of a block with one transaction on alice has
\* ended: the hook changed the beacon account and the trace changed alice, both
\* are in the state mask, and of the storage tries present at the start those
\* of alice and the beacon contract are kept and carol's is dropped.
C28_Witness ==
    /\ Len(out) = 1
    /\ pc = "batch"
    /\ Len(input.txn_info) = 1
    /\ TraceAddrs(input.txn_info[1]) = {Addr.alice}
    /\ input.pre_state[Keccak(Addr.alice)] # StateGet(state_trie, Addr.alice)
    /\ input.pre_state[Keccak(BEACON_ROOTS_CONTRACT_ADDRESS)]
          # StateGet(state_trie, BEACON_ROOTS_CONTRACT_ADDRESS)
    /\ {Keccak(Addr.alice), Keccak(BEACON_ROOTS_CONTRACT_ADDRESS)}
          \subseteq out[1].before.state.keep
    /\ out[1].before.storage[Keccak(Addr.alice)] # None
    /\ out[1].before.storage[Keccak(BEACON_ROOTS_CONTRACT_ADDRESS)] # None
    /\ input.pre_state[Keccak(Addr.carol)] # None
    /\ out[1].before.storage[Keccak(Addr.carol)] = None

(***************************************************************************)
(* fetch_previous_block_hashes_from_block (zero/src/rpc/mod.rs 62-136).    *)
(* The call under study has input = [target_block_number, absent], where   *)
(* absent is the set of block numbers the provider has no block for.       *)
(***************************************************************************)
PREVIOUS_HASHES_COUNT == 256

\* the bounds of the target block numbers: 0..MaxLowTarget, and the numbers
\* from PREVIOUS_HASHES_COUNT - Near to PREVIOUS_HASHES_COUNT + Near + 1
MaxLowTarget == 4
Near == 2

\* the entrypoint variables, which the functions of the zero crate leave alone
coreVars ==
    << batches, batch_rest, traces, txn, last_trace, state_trie, storage_tries,
       transaction_trie, receipt_trie, code, withdrawals, txn_ix, loop_ix, loop_len,
       batch_first_txn_ix, batch_gas_used, batch_byte_code, batch_contract_code,
       before, storage_masks, state_mask, hook_runs, out, gens, first_run >>

\* B256::ZERO, the hash of no block
ZeroHash == << "hash", -1 >>

\* the chain behind the provider: a block's parent_hash is the hash of the
\* block before it
BlockHash(n) == << "hash", n >>
GetBlock(n) ==
    IF n \in input.absent THEN None
    ELSE Some([hash |-> BlockHash(n),
               parent_hash |-> IF n = 0 THEN ZeroHash ELSE BlockHash(n - 1)])

\* rpc/mod.rs 76
OddOffset(target_block_number) == target_block_number % 2

\* rpc/mod.rs 79-82: successors(target - 1 + odd_offset, |it| it - 1).take(257)
Successors(target_block_number) ==
    [i \in 1..(PREVIOUS_HASHES_COUNT + 1) |->
        target_block_number - 1 + OddOffset(target_block_number) - (i - 1)]

NonNegative(i) == i >= 0

\* rpc/mod.rs 84-93: chunks(2), each chunk as (first, optional second)
ChunkTuples(s) ==
    [c \in 1..((Len(s) + 1) \div 2) |->
        << s[2 * c - 1], IF 2 * c <= Len(s) THEN Some(s[2 * c]) ELSE None >>]

\* rpc/mod.rs 78-94
PreviousBlockNumbers(target_block_number) ==
    ChunkTuples(SelectSeq(Successors(target_block_number), NonNegative))

\* rpc/mod.rs 122: flatten of the two-item arrays
FlattenPairs(items) ==
    [i \in 1..(2 * Len(items)) |-> items[(i + 1) \div 2][((i - 1) % 2) + 1]]

\* rpc/mod.rs 121-124: flatten, skip(odd_offset), take(256)
SkipTake(items, target_block_number) ==
    LET flat == FlattenPairs(items)
        skipped == SubSeq(flat, OddOffset(target_block_number) + 1, Len(flat))
    IN  SubSeq(skipped, 1, IF Len(skipped) < PREVIOUS_HASHES_COUNT THEN Len(skipped)
                           ELSE PREVIOUS_HASHES_COUNT)

\* rpc/mod.rs 129-130: the index written for the hash of block block_num
HashIndex_mut_off_by_one(target_block_number, block_num) ==
    PREVIOUS_HASHES_COUNT - 1 - (target_block_number - block_num)

HashIndex(target_block_number, block_num) ==
    PREVIOUS_HASHES_COUNT - (target_block_number - block_num)

Targets ==
    (0..MaxLowTarget)
    \cup ((PREVIOUS_HASHES_COUNT - Near)..(PREVIOUS_HASHES_COUNT + Near + 1))
InputsHashes ==
    UNION {{[target_block_number |-> t, absent |-> a] : a \in {{}, {t}, {1}}} :
              t \in Targets}

InitHashes == \E inp \in InputsHashes : InitWith(inp, "hashes")

\* rpc/mod.rs 76-94
HashesBegin ==
    /\ pc = "hashes"
    /\ previous_block_numbers' = PreviousBlockNumbers(input.target_block_number)
    /\ pc' = "fetch"
    /\ UNCHANGED << input, result, error, collected_hashes, entries, prev_hashes,
                    coreVars, leaderVars >>

\* rpc/mod.rs 96-118: one request; buffered yields the results in the order of
\* the requests and try_collect stops at the first error
FetchBlock ==
    /\ pc = "fetch"
    /\ Len(collected_hashes) < Len(previous_block_numbers)
    /\ LET req == previous_block_numbers[Len(collected_hashes) + 1]
           block_num == req[1]
           block == GetBlock(block_num)
       IN  IF block = None
           THEN /\ pc' = "hashes_done"
                /\ result' = "err"
                /\ error' = "couldn't fill previous hashes"
                /\ UNCHANGED collected_hashes
           ELSE /\ collected_hashes' =
                      Append(collected_hashes,
                             << << block[1].hash, Some(block_num) >>,
                                << block[1].parent_hash, req[2] >> >>)
                /\ UNCHANGED << pc, result, error >>
    /\ UNCHANGED << input, previous_block_numbers, entries, prev_hashes, coreVars,
                    leaderVars >>

\* rpc/mod.rs 120-124
Collected ==
    /\ pc = "fetch"
    /\ Len(collected_hashes) = Len(previous_block_numbers)
    /\ prev_hashes' = [i \in 0..(PREVIOUS_HASHES_COUNT - 1) |-> ZeroHash]
    /\ entries' = SkipTake(collected_hashes, input.target_block_number)
    /\ pc' = "fill"
    /\ UNCHANGED << input, result, error, previous_block_numbers, collected_hashes,
                    coreVars, leaderVars >>

\* rpc/mod.rs 125-133: one item of the for_each; an index outside the array panics
FillEntry ==
    /\ pc = "fill"
    /\ entries # << >>
    /\ entries' = Tail(entries)
    /\ LET hash == Head(entries)[1]
           block_num == Head(entries)[2]
           ix == HashIndex(input.target_block_number, block_num[1])
       IN  IF block_num = None
           THEN UNCHANGED << pc, result, prev_hashes >>
           ELSE IF block_num[1] > input.target_block_number
                   \/ ix \notin 0..(PREVIOUS_HASHES_COUNT - 1)
                THEN /\ pc' = "hashes_done"
                     /\ result' = "panic"
                     /\ UNCHANGED prev_hashes
                ELSE /\ prev_hashes' = [prev_hashes EXCEPT ![ix] = hash]
                     /\ UNCHANGED << pc, result >>
    /\ UNCHANGED << input, error, previous_block_numbers, collected_hashes, coreVars,
                    leaderVars >>

\* rpc/mod.rs 135
HashesReturn ==
    /\ pc = "fill"
    /\ entries = << >>
    /\ pc' = "hashes_done"
    /\ result' = "ok"
    /\ UNCHANGED << input, error, previous_block_numbers, collected_hashes, entries,
                    prev_hashes, coreVars, leaderVars >>

NextHashes ==
    \/ HashesBegin
    \/ FetchBlock
    \/ Collected
    \/ FillEntry
    \/ HashesReturn

SpecHashes == InitHashes /\ [][NextHashes]_vars

HashesOk == pc = "hashes_done" /\ result = "ok"
Target == input.target_block_number
\* the block the item of collected_hashes was fetched for
FetchedFor(item) == item[1][2][1]

\* C29: for every target t >= 1, on success prev_hashes[256 - (t - n)] is the
\* hash of block n for every n with max(0, t - 256) <= n <= t - 1, every other
\* entry is zero, no index outside 0..255 is ever written, and each hash is the
\* header hash of a fetched block or the parent_hash of the fetched block n + 1.
C29_PrevHashes ==
    /\ result # "panic"
    /\ (HashesOk /\ Target >= 1) =>
          /\ DOMAIN prev_hashes = 0..(PREVIOUS_HASHES_COUNT - 1)
          /\ \A n \in Max(0, Target - PREVIOUS_HASHES_COUNT)..(Target - 1) :
                /\ prev_hashes[PREVIOUS_HASHES_COUNT - (Target - n)] = BlockHash(n)
                /\ \E k \in 1..Len(collected_hashes) :
                      \/ /\ FetchedFor(collected_hashes[k]) = n
                         /\ collected_hashes[k][1][1] = BlockHash(n)
                      \/ /\ FetchedFor(collected_hashes[k]) = n + 1
                         /\ collected_hashes[k][2] = << BlockHash(n), Some(n) >>
          /\ \A i \in 0..(PREVIOUS_HASHES_COUNT - 1) :
                i < PREVIOUS_HASHES_COUNT - Target => prev_hashes[i] = ZeroHash

\* C29 witness: the call for the odd target 257 returned: the hash of block 256
\* is at index 255 and the hash of block 1 at index 0, out of 129 fetches.
C29_Witness ==
    /\ HashesOk
    /\ Target = 257
    /\ prev_hashes[255] = BlockHash(256)
    /\ prev_hashes[0] = BlockHash(1)
    /\ Len(collected_hashes) = 129

(***************************************************************************)
(* client_main (zero/src/bin/leader/client.rs 26-113) and the proving task *)
(* it spawns.  The call under study has input = [test_only, check_ok,      *)
(* stream_ok, stream, fetch_fail, close_fail]: stream is the list of items *)
(* the block interval stream yields, each an (block number, is last) pair  *)
(* or the error item.  prover::prove is the environment: it takes messages *)
(* from the channel and may terminate at any moment, with any outcome.     *)
(***************************************************************************)
BLOCK_CHANNEL_SIZE == 2
MaxBlocks == 3

StreamErr == << "err" >>
SendErrMsg == "failed to send block prover input through the channel"

\* rpc::block_prover_input for a block number
BlockProverInputFor(block_num) == << "block_prover_input", block_num >>

\* the message for an item of the stream (client.rs 86-87)
MessageFor(elem) == << BlockProverInputFor(elem[1]), elem[2] >>

\* the streams: blocks 1..n with the last one flagged (a bounded interval) or
\* none flagged (an interval that follows the chain), possibly cut by an error
BoundedItems(n) == [i \in 1..n |-> << i, i = n >>]
FollowItems(n) == [i \in 1..n |-> << i, FALSE >>]
Streams ==
    UNION {{BoundedItems(n), FollowItems(n)} : n \in 0..MaxBlocks}
    \cup {SubSeq(BoundedItems(n), 1, k) \o << StreamErr >> : n \in 1..MaxBlocks, k \in 0..1}

InputsLeader ==
    {[test_only |-> FALSE, check_ok |-> FALSE, stream_ok |-> TRUE,
      stream |-> BoundedItems(1), fetch_fail |-> {}, close_fail |-> {}],
     [test_only |-> TRUE, check_ok |-> FALSE, stream_ok |-> TRUE,
      stream |-> BoundedItems(2), fetch_fail |-> {}, close_fail |-> {}],
     [test_only |-> FALSE, check_ok |-> TRUE, stream_ok |-> FALSE,
      stream |-> BoundedItems(1), fetch_fail |-> {}, close_fail |-> {}]}
    \cup {[test_only |-> FALSE, check_ok |-> TRUE, stream_ok |-> TRUE,
           stream |-> s, fetch_fail |-> f, close_fail |-> c] :
            s \in Streams, f \in {{}, {2}}, c \in {{}, {"light"}, {"heavy"}}}

InitLeader == \E inp \in InputsLeader : InitWith(inp, "client")

\* client.rs 38-61: the sanity check, the channel, the spawn of the proving task
ClientStart ==
    /\ pc = "client"
    /\ IF ~input.test_only /\ ~input.check_ok
       THEN Fail("previous proof and checkpoint do not match")
       ELSE /\ channel' = << >>
            /\ rx_open' = TRUE
            /\ proving_task' = "running"
            /\ pc' = "stream"
            /\ UNCHANGED << input, result, error, block_interval_stream,
                            block_interval_elem, received, sent, closed, coreVars,
                            rpcVars >>

\* client.rs 63-71
ClientStream ==
    /\ pc = "stream"
    /\ IF ~input.stream_ok
       THEN Fail("invalid block interval")
       ELSE /\ block_interval_stream' = Some(input.stream)
            /\ pc' = "next"
            /\ UNCHANGED << input, result, error, block_interval_elem, channel, rx_open,
                            proving_task, received, sent, closed, coreVars, rpcVars >>

\* client.rs 75-76: the next item of the stream
ClientNext ==
    /\ pc = "next"
    /\ IF block_interval_stream[1] = << >>
       THEN /\ pc' = "join"
            /\ UNCHANGED << input, result, error, leaderVars, coreVars, rpcVars >>
       ELSE IF Head(block_interval_stream[1]) = StreamErr
       THEN Fail("block interval stream failed")
       ELSE /\ block_interval_elem' = Some(Head(block_interval_stream[1]))
            /\ block_interval_stream' = Some(Tail(block_interval_stream[1]))
            /\ pc' = "fetch"
            /\ UNCHANGED << input, result, error, channel, rx_open, proving_task,
                            received, sent, closed, coreVars, rpcVars >>

\* client.rs 77-84
ClientFetch ==
    /\ pc = "fetch"
    /\ IF block_interval_elem[1][1] \in input.fetch_fail
       THEN Fail("couldn't fetch the prover input")
       ELSE /\ pc' = "send"
            /\ UNCHANGED << input, result, error, leaderVars, coreVars, rpcVars >>

\* client.rs 85-88: send on the bounded channel fails when the receiver is
\* gone, waits while the channel is full, and queues the message otherwise
ClientSend ==
    /\ pc = "send"
    /\ IF ~rx_open
       THEN Fail(SendErrMsg)
       ELSE /\ Len(channel) < BLOCK_CHANNEL_SIZE
            /\ channel' = Append(channel, MessageFor(block_interval_elem[1]))
            /\ sent' = Append(sent, MessageFor(block_interval_elem[1]))
            /\ pc' = "next"
            /\ UNCHANGED << input, result, error, block_interval_stream,
                            block_interval_elem, rx_open, proving_task, received,
                            closed, coreVars, rpcVars >>

\* client.rs 92-102: what the client does with the joined proving task
JoinOutcome_mut_ignore_error(task) ==
    [ok |-> task \in {"ok", "err"}, error |-> "Unable to join proving task"]

JoinOutcome(task) ==
    IF task = "ok" THEN [ok |-> TRUE, error |-> ""]
    ELSE IF task = "err" THEN [ok |-> FALSE, error |-> "Proving task finished with error"]
    ELSE [ok |-> FALSE, error |-> "Unable to join proving task"]

ClientJoin ==
    /\ pc = "join"
    /\ proving_task # "running"
    /\ IF ~JoinOutcome(proving_task).ok
       THEN Fail(JoinOutcome(proving_task).error)
       ELSE /\ pc' = "close_light"
            /\ UNCHANGED << input, result, error, leaderVars, coreVars, rpcVars >>

\* client.rs 104
ClientCloseLight ==
    /\ pc = "close_light"
    /\ IF "light" \in input.close_fail
       THEN Fail("couldn't close the light proof runtime")
       ELSE /\ closed' = Append(closed, "light")
            /\ pc' = "close_heavy"
            /\ UNCHANGED << input, result, error, block_interval_stream,
                            block_interval_elem, channel, rx_open, proving_task,
                            received, sent, coreVars, rpcVars >>

\* client.rs 105-113
ClientCloseHeavy ==
    /\ pc = "close_heavy"
    /\ IF "heavy" \in input.close_fail
       THEN Fail("couldn't close the heavy proof runtime")
       ELSE /\ closed' = Append(closed, "heavy")
            /\ pc' = "client_done"
            /\ result' = "ok"
            /\ UNCHANGED << input, error, block_interval_stream, block_interval_elem,
                            channel, rx_open, proving_task, received, sent, coreVars,
                            rpcVars >>

\* the proving task takes the oldest message from the channel
ProverRecv ==
    /\ proving_task = "running"
    /\ channel # << >>
    /\ received' = Append(received, Head(channel))
    /\ channel' = Tail(channel)
    /\ UNCHANGED << input, pc, result, error, block_interval_stream,
                    block_interval_elem, rx_open, proving_task, sent, closed, coreVars,
                    rpcVars >>

\* the proving task ends, with Ok, with an error or by a panic; its receiver
\* is dropped with the messages still in the channel
ProverTerminate ==
    /\ proving_task = "running"
    /\ \E outcome \in {"ok", "err", "panicked"} : proving_task' = outcome
    /\ rx_open' = FALSE
    /\ channel' = << >>
    /\ UNCHANGED << input, pc, result, error, block_interval_stream,
                    block_interval_elem, received, sent, closed, coreVars, rpcVars >>

NextClient ==
    \/ ClientStart
    \/ ClientStream
    \/ ClientNext
    \/ ClientFetch
    \/ ClientSend
    \/ ClientJoin
    \/ ClientCloseLight
    \/ ClientCloseHeavy

NextLeader ==
    \/ NextClient
    \/ ProverRecv
    \/ ProverTerminate

\* the runtime polls the client whenever it can make a step: a sender waiting
\* on a full channel is woken when the receiver is dropped
SpecLeader == InitLeader /\ [][NextLeader]_vars /\ WF_vars(NextClient)

IsPrefix(s, t) == Len(s) <= Len(t) /\ s = SubSeq(t, 1, Len(s))
ClientOk == pc = "client_done" /\ result = "ok"
\* the messages of the interval, in its order
IntervalMessages == SeqMap(MessageFor, SelectSeq(input.stream, LAMBDA it : it # StreamErr))

C30_Order ==
    /\ IsPrefix(sent, IntervalMessages)
    /\ IsPrefix(received, sent)
    /\ Len(channel) <= BLOCK_CHANNEL_SIZE
    /\ rx_open => received \o channel = sent
    /\ ClientOk =>
          /\ StreamErr \notin {input.stream[i] : i \in 1..Len(input.stream)}
          /\ sent = IntervalMessages
          /\ proving_task = "ok"
          /\ closed = << "light", "heavy" >>

C30_Step ==
    (pc = "send" /\ ~rx_open /\ pc' # pc) => (result' = "err" /\ error' = SendErrMsg)

SendAfterEarlyEnd == pc = "send" /\ proving_task \in {"ok", "err", "panicked"}

\* C30: the block prover inputs are sent over the bounded channel in the order
\* of the block interval, one per block, each with its is-last flag; the client
\* returns Ok only if every block of the interval was fetched and sent, the
\* proving task then completed with Ok and both proof runtimes were closed; if
\* the proving task ends early, the next send fails and the client returns an
\* error instead of blocking forever.
C30_LeaderProtocol ==
    /\ []C30_Order
    /\ [][C30_Step]_vars
    /\ (SendAfterEarlyEnd ~> result = "err")

\* C30 witness: the client returned Ok after three blocks went through the
\* channel in order, the last one flagged, the proving task ended with Ok and
\* both proof runtimes were closed.
C30_Witness ==
    /\ ClientOk
    /\ sent = << << BlockProverInputFor(1), FALSE >>, << BlockProverInputFor(2), FALSE >>,
                 << BlockProverInputFor(3), TRUE >> >>
    /\ received = sent
    /\ proving_task = "ok"
    /\ closed = << "light", "heavy" >>

====
